---- MODULE Spec2Model ----
(***************************************************************************)
(* A model of the .NET profiler extension: the counter stream reader of    *)
(* src/src/monitoring.ts (session life cycle, file tailing, partial-JSON   *)
(* recovery, batching), the delta engine of src/src/webview.ts and the     *)
(* heap type aggregator of src/src/memory.ts.                              *)
(***************************************************************************)
EXTENDS Integers, Sequences, FiniteSets, TLC

(***************************************************************************)
(* Bounds of the model.                                                    *)
(***************************************************************************)
\* sessions (spawned collector processes) over a run
MaxSessions == 2
\* events the collector tool writes over a run, all files together
MaxEvents == 2
\* startMonitoring invocations suspended at an await at the same time
MaxPendingStarts == 2
\* stopMonitoring follow-up timeouts pending at the same time
MaxPendingStops == 1

Min(a, b) == IF a < b THEN a ELSE b

Last(s) == s[Len(s)]

SeqsUpTo(S, n) == UNION { [1..k -> S] : k \in 0..n }

Range(q) == { q[i] : i \in 1..Len(q) }

(***************************************************************************)
(* Strings are sequences of character codes, so that substring and         *)
(* comparison are computed and not assumed.                                *)
(***************************************************************************)
\* "unknown"
UnknownKey == <<117, 110, 107, 110, 111, 119, 110>>
\* "2024-01-01T10:00:0"  (18 characters, the common prefix of the timestamps)
TsPrefix ==
    <<50, 48, 50, 52, 45, 48, 49, 45, 48, 49, 84, 49, 48, 58, 48, 48, 58, 48>>
\* "2024-01-01T10:00:00" and "2024-01-01T10:00:01": second resolution
TsA == TsPrefix \o <<48>>
TsB == TsPrefix \o <<49>>
\* "2024-01-01T10:00:00.5": the same second as TsA, with a fraction
TsAfrac == TsA \o <<46, 53>>
\* "2024": a timestamp shorter than the truncation length
TsShort == <<50, 48, 50, 52>>
\* no timestamp: the property is absent or the empty string (both falsy)
NoTs == <<>>

\* String.prototype.substring(0, n)
Substring0(s, n) == SubSeq(s, 1, Min(n, Len(s)))

CpuName == "CPU Usage (%)"
MemoryName == "Working Set (MB)"
GcHeapName == "GC Heap Size (MB)"
OtherName == "Gen 0 GC Count"

CounterEvent(ts, n, v) == [timestamp |-> ts, name |-> n, value |-> v]

(***************************************************************************)
(* extractMetrics: the last value of each of the three named counters.     *)
(***************************************************************************)
RECURSIVE ExtractFrom(_, _, _)
ExtractFrom(events, i, acc) ==
    IF i > Len(events) THEN acc
    ELSE LET name == events[i].name
             v == events[i].value
             acc2 == IF name = CpuName THEN [acc EXCEPT !.cpu = v]
                     ELSE IF name = MemoryName THEN [acc EXCEPT !.memory = v]
                     ELSE IF name = GcHeapName THEN [acc EXCEPT !.gcHeap = v]
                     ELSE acc
         IN ExtractFrom(events, i + 1, acc2)

\* a mutant: the first event of a name wins
extractMetrics_FirstWins(events, timestamp) ==
    LET Rev == [i \in 1..Len(events) |-> events[Len(events) + 1 - i]]
    IN ExtractFrom(Rev, 1,
                   [cpu |-> 0, memory |-> 0, gcHeap |-> 0, timestamp |-> timestamp])

extractMetrics(events, timestamp) ==
    ExtractFrom(events, 1,
                [cpu |-> 0, memory |-> 0, gcHeap |-> 0, timestamp |-> timestamp])

(***************************************************************************)
(* The grouping of parseAndUpdateChart: a Map from the truncated timestamp *)
(* to the events of that bucket, in insertion order.  The Map is a         *)
(* sequence of [key, events] entries.                                      *)
(***************************************************************************)
TimestampKeyLen == 19

\* a mutant: the timestamp is not truncated
BucketKey_NoTruncate(event) ==
    IF event.timestamp # <<>> THEN event.timestamp ELSE UnknownKey

BucketKey(event) ==
    IF event.timestamp # <<>> THEN Substring0(event.timestamp, TimestampKeyLen)
    ELSE UnknownKey

MapHas(m, k) == \E i \in 1..Len(m) : m[i].key = k

MapPush(m, k, e) ==
    [i \in 1..Len(m) |->
        IF m[i].key = k THEN [m[i] EXCEPT !.events = Append(@, e)] ELSE m[i]]

RECURSIVE GroupFrom(_, _, _)
GroupFrom(newEvents, i, grouped) ==
    IF i > Len(newEvents) THEN grouped
    ELSE LET k == BucketKey(newEvents[i])
             g2 == IF MapHas(grouped, k) THEN grouped
                   ELSE Append(grouped, [key |-> k, events |-> <<>>])
         IN GroupFrom(newEvents, i + 1, MapPush(g2, k, newEvents[i]))

GroupByTimestamp(newEvents) == GroupFrom(newEvents, 1, <<>>)

\* a mutant: a sample is suppressed only when all three metrics are 0
ShouldEmit_NonZero(metrics) ==
    metrics.cpu # 0 \/ metrics.memory # 0 \/ metrics.gcHeap # 0

\* the all-zero suppression of parseAndUpdateChart
ShouldEmit(metrics) == metrics.cpu > 0 \/ metrics.memory > 0 \/ metrics.gcHeap > 0

\* the metrics of every batch, in the iteration order of the Map
MetricsOf(grouped) ==
    [i \in 1..Len(grouped) |-> extractMetrics(grouped[i].events, grouped[i].key)]

\* panel.webview.postMessage({ type: 'update', data: metrics })
UpdateMessage(metrics) == [type |-> "update", data |-> metrics]

\* the messages the loop over the batches posts: startMonitoring always
\* hands startFilePolling a panel
PostedFor(metrics) ==
    LET kept == SelectSeq(metrics, ShouldEmit)
    IN [i \in 1..Len(kept) |-> UpdateMessage(kept[i])]

(***************************************************************************)
(* The counter file.  Its text is a sequence of tokens: the document head  *)
(* up to and including the opening of the Events array, complete events,   *)
(* commas, a fragment of an event still being written, whitespace and the  *)
(* two closing characters.                                                 *)
(***************************************************************************)
NoEv == CounterEvent(<<>>, "", 0)
Tok(kind) == [tok |-> kind, ev |-> NoEv]
DocHead == Tok("head")       \* { "TargetProcess": .., "StartTime": .., "Events": [
Comma == Tok(",")
Ws == Tok("ws")
RBracket == Tok("]")
RBrace == Tok("}")
EvTok(e) == [tok |-> "event", ev |-> e]
\* a proper prefix of the text of event e
PartTok(e) == [tok |-> "part", ev |-> e]

\* String.prototype.length: a complete event is longer than its fragment
TokLen(t) == IF t.tok = "event" THEN 2 ELSE 1

RECURSIVE StrLen(_)
StrLen(content) ==
    IF content = <<>> THEN 0
    ELSE TokLen(content[1]) + StrLen(Tail(content))

\* String.prototype.trim
RECURSIVE TrimEnd(_)
TrimEnd(s) ==
    IF s # <<>> /\ Last(s) = Ws THEN TrimEnd(SubSeq(s, 1, Len(s) - 1)) ELSE s

RECURSIVE TrimStart(_)
TrimStart(s) == IF s # <<>> /\ s[1] = Ws THEN TrimStart(Tail(s)) ELSE s

Trim(s) == TrimStart(TrimEnd(s))

\* json.trim().endsWith(']}')
EndsWithClose(s) ==
    Len(s) >= 2 /\ s[Len(s) - 1] = RBracket /\ s[Len(s)] = RBrace

\* json.replace(/,\s*$/, '')
StripTrailingComma(s) ==
    LET t == TrimEnd(s)
    IN IF t # <<>> /\ Last(t) = Comma THEN SubSeq(t, 1, Len(t) - 1) ELSE s

\* the recovery transform of parseAndUpdateChart
Recover(content) ==
    IF ~EndsWithClose(Trim(content))
    THEN StripTrailingComma(content) \o <<RBracket, RBrace>>
    ELSE content

(***************************************************************************)
(* JSON.parse on a counter document: whitespace between tokens is          *)
(* insignificant; the document is the head, a comma-separated list of      *)
(* complete events, "]" and "}".  Anything else is a SyntaxError.          *)
(***************************************************************************)
IsEventList(b) ==
    \/ b = <<>>
    \/ /\ Len(b) % 2 = 1
       /\ \A i \in 1..Len(b) :
            IF i % 2 = 1 THEN b[i].tok = "event" ELSE b[i] = Comma

JsonParse(json) ==
    LET toks == SelectSeq(json, LAMBDA t : t # Ws)
        n == Len(toks)
        body == SubSeq(toks, 2, n - 2)
        ok == /\ n >= 3
              /\ toks[1] = DocHead
              /\ toks[n - 1] = RBracket
              /\ toks[n] = RBrace
              /\ IsEventList(body)
        evs == SelectSeq(body, LAMBDA t : t.tok = "event")
    IN [ok |-> ok,
        Events |-> IF ok THEN [i \in 1..Len(evs) |-> evs[i].ev] ELSE <<>>]

(***************************************************************************)
(* The monitoring session of src/src/monitoring.ts.                        *)
(*                                                                         *)
(* Processes, timers and output files are numbered by the startMonitoring  *)
(* run that created them; 0 stands for null.                               *)
(***************************************************************************)
VARIABLES
    monitoringProcess,  \* the module variable: 0 or the handle of a process
    readInterval,       \* the module variable: 0 or the handle of a timer
    outputFile,         \* the module variable: 0 or the path of a counter file
    lastFileSize,       \* the module variable
    lastEventCount,     \* the module variable
    pendingStarts,      \* startMonitoring invocations suspended at an await
    pendingStops,       \* setTimeout callbacks of stopMonitoring not yet run
    proc,               \* the state of every process spawned so far
    file,               \* the file system: the counter file of every session
    timers,             \* the setInterval timers that are armed
    nextId,             \* the number of the next session
    written,            \* events written by the collector tool so far
    lastTick,           \* the locals of the polling callback, when it ran last
    processed,          \* history: the (file, index) pairs sliced as new events
    skipped,            \* history: the (file, length) pairs of the reads that did not parse
    sliced              \* history: how many events were sliced as new events

monVars ==
    <<monitoringProcess, readInterval, outputFile, lastFileSize, lastEventCount,
      pendingStarts, pendingStops, proc, file, timers, nextId, written, lastTick,
      processed, skipped, sliced>>

Sessions == 1..MaxSessions

NoFile == [state |-> "absent", content |-> <<>>]
Present(content) == [state |-> "present", content |-> content]
Deleted == [state |-> "deleted", content |-> <<>>]
\* unlinkSync threw: the file stays on disk; no path refers to it any more, so
\* its content is no longer tracked
LeftBehind == [state |-> "left", content |-> <<>>]

\* fs.existsSync(outputFile), for a non-null outputFile
ExistsSync(f) == file[f].state = "present"

\* the locals of a polling callback; ran is FALSE when the handler that ran
\* last is not the polling callback
NoTick ==
    [ran |-> FALSE, file |-> 0, read |-> FALSE, parsed |-> FALSE, first |-> 0,
     len |-> 0, newEvents |-> <<>>, metrics |-> <<>>, msgs |-> <<>>]

\* the events the collector tool emits in the life-cycle specification
ToolEvents == { CounterEvent(TsA, CpuName, 1) }

InitMonitoring ==
    /\ monitoringProcess = 0
    /\ readInterval = 0
    /\ outputFile = 0
    /\ lastFileSize = 0
    /\ lastEventCount = 0
    /\ pendingStarts = 0
    /\ pendingStops = 0
    /\ proc = [s \in Sessions |-> "none"]
    /\ file = [s \in Sessions |-> NoFile]
    /\ timers = {}
    /\ nextId = 1
    /\ written = 0
    /\ lastTick = NoTick
    /\ processed = {}
    /\ skipped = {}
    /\ sliced = 0

\* a handler other than the polling callback ran
NotATick == lastTick' = NoTick /\ UNCHANGED <<processed, skipped, sliced>>

(***************************************************************************)
(* cleanup(): the timer held in readInterval is cleared; the output file   *)
(* is unlinked and forgotten only when it exists (unlinkSync may throw,    *)
(* which is ignored); the handle and both counters are reset.              *)
(***************************************************************************)
CleanupOutputFile(unlinkOk) ==
    IF outputFile # 0 /\ ExistsSync(outputFile)
    THEN /\ file' = [file EXCEPT ![outputFile] =
                        IF unlinkOk THEN Deleted ELSE LeftBehind]
         /\ outputFile' = 0
    ELSE UNCHANGED <<file, outputFile>>

cleanup(unlinkOk) ==
    /\ timers' = timers \ {readInterval}
    /\ readInterval' = 0
    /\ CleanupOutputFile(unlinkOk)
    /\ monitoringProcess' = 0
    /\ lastFileSize' = 0
    /\ lastEventCount' = 0

(***************************************************************************)
(* startMonitoring, up to its first await: the guard on monitoringProcess. *)
(***************************************************************************)
StartCall ==
    /\ IF monitoringProcess # 0
       THEN UNCHANGED pendingStarts
       ELSE /\ pendingStarts < MaxPendingStarts
            /\ pendingStarts' = pendingStarts + 1
    /\ NotATick
    /\ UNCHANGED <<monitoringProcess, readInterval, outputFile, lastFileSize,
                   lastEventCount, pendingStops, proc, file, timers, nextId,
                   written>>

\* ensureTool resolves false, or no process is selected: return
StartAbort ==
    /\ pendingStarts > 0
    /\ pendingStarts' = pendingStarts - 1
    /\ NotATick
    /\ UNCHANGED <<monitoringProcess, readInterval, outputFile, lastFileSize,
                   lastEventCount, pendingStops, proc, file, timers, nextId,
                   written>>

\* the rest of startMonitoring, after the last await, with startFilePolling
StartResume(spawnOk) ==
    /\ pendingStarts > 0
    /\ nextId <= MaxSessions
    /\ pendingStarts' = pendingStarts - 1
    /\ outputFile' = nextId
    /\ lastFileSize' = 0
    /\ lastEventCount' = 0
    /\ monitoringProcess' = nextId
    /\ proc' = [proc EXCEPT ![nextId] = IF spawnOk THEN "running" ELSE "failed"]
    /\ readInterval' = nextId
    /\ timers' = timers \cup {nextId}
    /\ nextId' = nextId + 1
    /\ NotATick
    /\ UNCHANGED <<pendingStops, file, written>>

(***************************************************************************)
(* The polling callback of startFilePolling and parseAndUpdateChart.       *)
(***************************************************************************)
\* a mutant: the whole array is taken as new
SliceNew_All(Events, count) == Events

\* data.Events.slice(lastEventCount)
SliceNew(Events, count) == SubSeq(Events, count + 1, Len(Events))

\* data.Events && data.Events.length > lastEventCount
HasNewEvents(data, count) == data.ok /\ Len(data.Events) > count

\* a mutant: growth by one character is not seen
FileGrew_ByTwo(content, size) == StrLen(content) > size + 1

\* content.length > lastFileSize
FileGrew(content, size) == StrLen(content) > size

\* the callback returned before reading, or read content that is not longer
IdleTick ==
    /\ lastTick' = [NoTick EXCEPT !.ran = TRUE, !.file = outputFile,
                                  !.first = lastEventCount]
    /\ UNCHANGED <<lastFileSize, lastEventCount, processed, skipped, sliced>>

parseAndUpdateChart(content) ==
    LET data == JsonParse(Recover(content))
    IN IF HasNewEvents(data, lastEventCount)
       THEN LET newEvents == SliceNew(data.Events, lastEventCount)
                n == Len(data.Events)
                metrics == MetricsOf(GroupByTimestamp(newEvents))
            IN /\ lastEventCount' = n
               /\ lastTick' =
                    [ran |-> TRUE, file |-> outputFile, read |-> TRUE,
                     parsed |-> TRUE, first |-> lastEventCount, len |-> n,
                     newEvents |-> newEvents, metrics |-> metrics,
                     msgs |-> PostedFor(metrics)]
               /\ processed' = processed \cup
                    {<<outputFile, i>> : i \in (n - Len(newEvents) + 1)..n}
               /\ sliced' = sliced + Len(newEvents)
               /\ UNCHANGED skipped
       ELSE /\ lastTick' =
                    [NoTick EXCEPT !.ran = TRUE, !.file = outputFile,
                                   !.read = TRUE, !.parsed = data.ok,
                                   !.first = lastEventCount,
                                   !.len = Len(data.Events)]
            /\ skipped' = IF data.ok THEN skipped
                           ELSE skipped \cup {<<outputFile, StrLen(content)>>}
            /\ UNCHANGED <<lastEventCount, processed, sliced>>

Tick(t) ==
    /\ t \in timers
    /\ IF outputFile = 0 \/ ~ExistsSync(outputFile)
       THEN IdleTick
       ELSE LET content == file[outputFile].content
            IN IF FileGrew(content, lastFileSize)
               THEN /\ lastFileSize' = StrLen(content)
                    /\ parseAndUpdateChart(content)
               ELSE IdleTick
    /\ UNCHANGED <<monitoringProcess, readInterval, outputFile, pendingStarts,
                   pendingStops, proc, file, timers, nextId, written>>

(***************************************************************************)
(* The collector tool (dotnet-counters collect --format json): it creates  *)
(* the file with the document head, appends events separated by commas,    *)
(* possibly in several writes, and ends the document with "]" and "}".     *)
(* It only ever appends.                                                   *)
(***************************************************************************)
Writing(s) == proc[s] \in {"running", "term"} /\ file[s].state = "present"

ToolWrite(s, content, n) ==
    /\ file' = [file EXCEPT ![s] = Present(content)]
    /\ written' = written + n
    /\ NotATick
    /\ UNCHANGED <<monitoringProcess, readInterval, outputFile, lastFileSize,
                   lastEventCount, pendingStarts, pendingStops, proc, timers,
                   nextId>>

ToolCreate(s) ==
    /\ proc[s] \in {"running", "term"}
    /\ file[s].state = "absent"
    /\ ToolWrite(s, <<DocHead>>, 0)

\* the separator a new element needs after the last token written
Separator(content) == IF Last(content).tok = "event" THEN <<Comma>> ELSE <<>>

ToolEvent(s, e) ==
    /\ Writing(s)
    /\ written < MaxEvents
    /\ Last(file[s].content).tok \in {"head", "event", ","}
    /\ ToolWrite(s, file[s].content \o Separator(file[s].content)
                    \o <<EvTok(e)>>, 1)

ToolComma(s) ==
    /\ Writing(s)
    /\ written < MaxEvents
    /\ Last(file[s].content).tok = "event"
    /\ ToolWrite(s, Append(file[s].content, Comma), 0)

ToolPartial(s, e) ==
    /\ Writing(s)
    /\ written < MaxEvents
    /\ Last(file[s].content).tok \in {"head", "event", ","}
    /\ ToolWrite(s, file[s].content \o Separator(file[s].content)
                    \o <<PartTok(e)>>, 1)

ToolComplete(s) ==
    /\ Writing(s)
    /\ Last(file[s].content).tok = "part"
    /\ ToolWrite(s, SubSeq(file[s].content, 1, Len(file[s].content) - 1)
                    \o <<EvTok(Last(file[s].content).ev)>>, 0)

ToolCloseBracket(s) ==
    /\ Writing(s)
    /\ Last(file[s].content).tok \in {"head", "event"}
    /\ ToolWrite(s, Append(file[s].content, RBracket), 0)

ToolCloseBrace(s) ==
    /\ Writing(s)
    /\ Last(file[s].content).tok = "]"
    /\ ToolWrite(s, Append(file[s].content, RBrace), 0)

(***************************************************************************)
(* The 'close' and 'error' handlers installed by startMonitoring.          *)
(***************************************************************************)
ProcClose(s, unlinkOk) ==
    /\ proc[s] \in {"running", "term", "kill"}
    /\ proc' = [proc EXCEPT ![s] = "closed"]
    /\ cleanup(unlinkOk)
    /\ NotATick
    /\ UNCHANGED <<pendingStarts, pendingStops, nextId, written>>

ProcError(s, unlinkOk) ==
    /\ proc[s] = "failed"
    /\ proc' = [proc EXCEPT ![s] = "closed"]
    /\ cleanup(unlinkOk)
    /\ NotATick
    /\ UNCHANGED <<pendingStarts, pendingStops, nextId, written>>

(***************************************************************************)
(* stopMonitoring and its 500 ms follow-up.                                *)
(***************************************************************************)
\* a signal reaches a process that has a pid and has not exited
Signal(s, sig) ==
    IF proc[s] \in {"running", "term"} THEN [proc EXCEPT ![s] = sig] ELSE proc

StopCall ==
    /\ IF monitoringProcess # 0
       THEN /\ pendingStops < MaxPendingStops
            /\ proc' = Signal(monitoringProcess, "term")
            /\ pendingStops' = pendingStops + 1
       ELSE UNCHANGED <<proc, pendingStops>>
    /\ NotATick
    /\ UNCHANGED <<monitoringProcess, readInterval, outputFile, lastFileSize,
                   lastEventCount, pendingStarts, file, timers, nextId, written>>

StopFollowUp(unlinkOk) ==
    /\ pendingStops > 0
    /\ pendingStops' = pendingStops - 1
    /\ proc' = IF monitoringProcess # 0 THEN Signal(monitoringProcess, "kill")
               ELSE proc
    /\ cleanup(unlinkOk)
    /\ NotATick
    /\ UNCHANGED <<pendingStarts, nextId, written>>

NextMonitoring ==
    \/ StartCall
    \/ StartAbort
    \/ \E spawnOk \in BOOLEAN : StartResume(spawnOk)
    \/ \E t \in Sessions : Tick(t)
    \/ \E s \in Sessions : ToolCreate(s)
    \/ \E s \in Sessions, e \in ToolEvents : ToolEvent(s, e)
    \/ \E s \in Sessions, unlinkOk \in BOOLEAN : ProcClose(s, unlinkOk)
    \/ \E s \in Sessions, unlinkOk \in BOOLEAN : ProcError(s, unlinkOk)
    \/ StopCall
    \/ \E unlinkOk \in BOOLEAN : StopFollowUp(unlinkOk)

(***************************************************************************)
(* Tailing one counter file: a session whose collector has written a       *)
(* document before the first polling tick, and goes on writing.            *)
(***************************************************************************)
\* events in a document written before the first tick
MaxBatch == 3

TailEvents ==
    { CounterEvent(TsA, CpuName, 2),
      CounterEvent(TsAfrac, CpuName, 0),
      CounterEvent(TsA, MemoryName, -1),
      CounterEvent(TsB, MemoryName, 3),
      CounterEvent(TsB, GcHeapName, 0),
      CounterEvent(TsAfrac, GcHeapName, 1),
      CounterEvent(NoTs, CpuName, 1),
      CounterEvent(NoTs, OtherName, 5),
      CounterEvent(TsA, OtherName, 4),
      CounterEvent(TsShort, GcHeapName, 2) }

\* the text of a document with the events evs, without its closing characters
RECURSIVE DocBody(_)
DocBody(evs) ==
    IF evs = <<>> THEN <<DocHead>>
    ELSE LET front == SubSeq(evs, 1, Len(evs) - 1)
         IN DocBody(front) \o Separator(DocBody(front)) \o <<EvTok(Last(evs))>>

\* what a read of the file may find after the last complete event
TailsAfterEvent ==
    { <<>>, <<Ws>>, <<Comma>>, <<Comma, Ws>>, <<Ws, Comma>>,
      <<RBracket>>, <<RBracket, Ws>>, <<Ws, RBracket>>,
      <<RBracket, RBrace>>, <<RBracket, RBrace, Ws>>, <<RBracket, Ws, RBrace>>,
      <<Ws, RBracket, RBrace>> }

TailsAfterHead == { t \in TailsAfterEvent : \A i \in 1..Len(t) : t[i] # Comma }

\* documents with many kinds of events, complete or cut after a comma
RichDocs ==
    { DocBody(evs) \o t :
        evs \in SeqsUpTo(TailEvents, MaxBatch) \ {<<>>},
        t \in {<<Comma>>, <<RBracket, RBrace>>} }

\* documents of few events with every kind of tail
TailDocs ==
    { DocBody(evs) \o t :
        evs \in SeqsUpTo(ToolEvents, MaxEvents) \ {<<>>}, t \in TailsAfterEvent }
    \cup { DocBody(<<>>) \o t : t \in TailsAfterHead }

InitTail ==
    /\ monitoringProcess = 1
    /\ readInterval = 1
    /\ outputFile = 1
    /\ lastFileSize = 0
    /\ lastEventCount = 0
    /\ pendingStarts = 0
    /\ pendingStops = 0
    /\ proc = [s \in Sessions |-> IF s = 1 THEN "running" ELSE "none"]
    /\ timers = {1}
    /\ nextId = 2
    /\ lastTick = NoTick
    /\ processed = {}
    /\ skipped = {}
    /\ sliced = 0
    /\ \/ \E d \in RichDocs :
            /\ file = [s \in Sessions |-> IF s = 1 THEN Present(d) ELSE NoFile]
            /\ written = MaxEvents
       \/ \E d \in TailDocs :
            /\ file = [s \in Sessions |-> IF s = 1 THEN Present(d) ELSE NoFile]
            /\ written = 0

NextTail ==
    \/ \E t \in Sessions : Tick(t)
    \/ \E s \in Sessions, e \in ToolEvents : ToolEvent(s, e)
    \/ \E s \in Sessions : ToolComma(s)
    \/ \E s \in Sessions, e \in ToolEvents : ToolPartial(s, e)
    \/ \E s \in Sessions : ToolComplete(s)
    \/ \E s \in Sessions : ToolCloseBracket(s)
    \/ \E s \in Sessions : ToolCloseBrace(s)

(***************************************************************************)
(* The memory grid of the webview (src/src/webview.ts): the snapshot shown  *)
(* and the one before it, and the deltas computed between them.            *)
(*                                                                         *)
(* A JavaScript reference that may be null is a record with a null flag.   *)
(***************************************************************************)
VARIABLES
    memoryDataRaw,          \* the rows of the snapshot shown
    memoryDataPrev,         \* null or the rows of the snapshot before it
    received,               \* history: the last two snapshots received, in order
    withDeltas,             \* the rows renderMemoryGrid computed last
    memoryGridContainer     \* what the grid container shows

gridVars == <<memoryDataRaw, memoryDataPrev, received, withDeltas, memoryGridContainer>>

\* rows of a snapshot
MaxRows == 2

TypeNames == {"Foo", "Bar", "Baz"}
\* 1 object of 16 bytes, 2 objects of 48 bytes
RowSizes == { [count |-> 1, bytes |-> 16], [count |-> 2, bytes |-> 48] }

GcDumpEntry(t, c, b) == [type |-> t, count |-> c, bytes |-> b]

NullRows == [null |-> TRUE, rows |-> <<>>]
SomeRows(rows) == [null |-> FALSE, rows |-> rows]

\* a mutant: the lookup never finds the type
PrevGet_Miss(previous, type) == NullRows

\* Map.get after the Map.set of every row: the last row of the type
PrevGet(previous, type) ==
    LET at == { i \in 1..Len(previous) : previous[i].type = type }
    IN IF at = {} THEN NullRows
       ELSE SomeRows(<<previous[CHOOSE i \in at : \A j \in at : j <= i]>>)

\* { ...row, countDelta: .., bytesDelta: .. }
DeltaRow(row, prev) ==
    [type |-> row.type, count |-> row.count, bytes |-> row.bytes,
     countDelta |-> IF ~prev.null THEN row.count - prev.rows[1].count
                    ELSE row.count,
     bytesDelta |-> IF ~prev.null THEN row.bytes - prev.rows[1].bytes
                    ELSE row.bytes]

\* a mutant: without a previous list every row gets its own values as deltas
computeMemoryDeltas_AlwaysDelta(current, previous) ==
    [i \in 1..Len(current) |->
        DeltaRow(current[i],
                 IF previous.null THEN NullRows
                 ELSE PrevGet(previous.rows, current[i].type))]

\* a mutant: the delta is taken against the row at the same position
computeMemoryDeltas_ByPosition(current, previous) ==
    IF previous.null THEN current
    ELSE [i \in 1..Len(current) |->
            DeltaRow(current[i],
                     IF i <= Len(previous.rows)
                     THEN SomeRows(<<previous.rows[i]>>) ELSE NullRows)]

computeMemoryDeltas(current, previous) ==
    IF previous.null THEN current
    ELSE [i \in 1..Len(current) |->
            DeltaRow(current[i], PrevGet(previous.rows, current[i].type))]

\* the snapshots the aggregator can deliver: rows of distinct types
SnapshotRows == { GcDumpEntry(t, z.count, z.bytes) : t \in TypeNames, z \in RowSizes }

Snapshots ==
    { q \in SeqsUpTo(SnapshotRows, MaxRows) :
        \A i, j \in 1..Len(q) : q[i].type = q[j].type => i = j }

InitGrid ==
    /\ memoryDataRaw = <<>>
    /\ memoryDataPrev = NullRows
    /\ received = <<>>
    /\ withDeltas = <<>>
    /\ memoryGridContainer = "initial"

\* the part of renderMemoryGrid after the update of the two snapshots
RenderGrid(raw, prev) ==
    /\ withDeltas' = computeMemoryDeltas(raw, prev)
    /\ memoryGridContainer' = IF Len(raw) = 0 THEN "noData" ELSE "grid"

\* the 'memorySnapshot' message: renderMemoryGrid(msg.data)
ReceiveSnapshot(data) ==
    LET prev == IF Len(memoryDataRaw) > 0 THEN SomeRows(memoryDataRaw)
                ELSE NullRows
    IN /\ memoryDataPrev' = prev
       /\ memoryDataRaw' = data
       /\ received' = IF Len(received) = 2 THEN <<received[2], data>>
                      ELSE Append(received, data)
       /\ RenderGrid(data, prev)

\* a filter input or a click on a column head: renderMemoryGrid().  The
\* filter and the sort work on a copy of the rows.
Rerender ==
    /\ memoryGridContainer # "initial"
    /\ RenderGrid(memoryDataRaw, memoryDataPrev)
    /\ UNCHANGED <<memoryDataRaw, memoryDataPrev, received>>

\* the 'snapshotError' message for the memory tab
SnapshotError ==
    /\ memoryGridContainer' = "error"
    /\ UNCHANGED <<memoryDataRaw, memoryDataPrev, received, withDeltas>>

NextGrid ==
    \/ \E data \in Snapshots : ReceiveSnapshot(data)
    \/ Rerender
    \/ SnapshotError

(***************************************************************************)
(* The heap type aggregator, parseGcDumpOutput of src/src/memory.ts.       *)
(*                                                                         *)
(* The report is a sequence of lines.  A number is its text: digits and    *)
(* commas.  A type is its text: a sequence of pieces.                      *)
(***************************************************************************)
VARIABLES
    output,     \* the text of a tool's output (the heap report, for parseGcDumpOutput)
    results,    \* what the parser returned for it
    parsedDump  \* whether the parser has run

aggVars == <<output, results, parsedDump>>

\* lines of a heap report
MaxLines == 4

CommaChar == -1

\* parseInt(text.replace(/,/g, ''), 10)
RECURSIVE ParseDigits(_, _)
ParseDigits(text, acc) ==
    IF text = <<>> THEN acc
    ELSE ParseDigits(Tail(text), acc * 10 + text[1])

ParseCommaInt(text) == ParseDigits(SelectSeq(text, LAMBDA ch : ch # CommaChar), 0)

Space == [piece |-> "space", text |-> " "]
Ident(name) == [piece |-> "name", text |-> name]
ArrayBrackets == [piece |-> "array", text |-> "[]"]
Bucket(text) == [piece |-> "bucket", text |-> text]
Assembly(text) == [piece |-> "assembly", text |-> text]

\* String.prototype.trim on the text of a type
RECURSIVE TrimTypeEnd(_)
TrimTypeEnd(t) ==
    IF t # <<>> /\ Last(t) = Space THEN TrimTypeEnd(SubSeq(t, 1, Len(t) - 1))
    ELSE t

RECURSIVE TrimTypeStart(_)
TrimTypeStart(t) == IF t # <<>> /\ t[1] = Space THEN TrimTypeStart(Tail(t)) ELSE t

TrimType(t) == TrimTypeStart(TrimTypeEnd(t))

\* type.replace(/\s*\([^)]*Bytes[^)]*\)\s*$/i, '').trim()
StripBucket(t) ==
    LET e == TrimTypeEnd(t)
    IN IF e # <<>> /\ Last(e).piece = "bucket"
       THEN TrimType(SubSeq(e, 1, Len(e) - 1))
       ELSE TrimType(t)

\* type.match(/^(.+?)\s*\[[A-Za-z][\w.]*\]$/), and match[1].trim()
StripAssembly(t) ==
    IF Len(t) >= 2 /\ Last(t).piece = "assembly"
    THEN TrimType(SubSeq(t, 1, Len(t) - 1))
    ELSE t

Canonical(typeText) == StripAssembly(StripBucket(TrimType(typeText)))

HeaderLine == [line |-> "header", bytes |-> <<>>, count |-> <<>>, type |-> <<>>]
BlankLine == [line |-> "blank", bytes |-> <<>>, count |-> <<>>, type |-> <<>>]
\* a line the row pattern does not match: a banner, a total
OtherLine == [line |-> "other", bytes |-> <<>>, count |-> <<>>, type |-> <<>>]
RowLine(b, c, t) == [line |-> "row", bytes |-> b, count |-> c, type |-> t]

\* line.match(/^\s*([\d,]+)\s+([\d,]+)\s+(.+)$/)
RowMatches(l) == l.line = "row" /\ l.bytes # <<>> /\ l.count # <<>> /\ l.type # <<>>

MapIndex(typeMap, type) ==
    { i \in 1..Len(typeMap) : typeMap[i].type = type }

\* a mutant: a row of a type already seen replaces its entry
MapAdd_Overwrite(typeMap, type, count, bytes) ==
    IF MapIndex(typeMap, type) # {}
    THEN [i \in 1..Len(typeMap) |->
            IF typeMap[i].type = type THEN GcDumpEntry(type, count, bytes)
            ELSE typeMap[i]]
    ELSE Append(typeMap, GcDumpEntry(type, count, bytes))

\* a mutant: every row is pushed, as in the older parser
MapAdd_Push(typeMap, type, count, bytes) ==
    Append(typeMap, GcDumpEntry(type, count, bytes))

\* typeMap.get(type), then the update of the entry or typeMap.set
MapAdd(typeMap, type, count, bytes) ==
    IF MapIndex(typeMap, type) # {}
    THEN [i \in 1..Len(typeMap) |->
            IF typeMap[i].type = type
            THEN GcDumpEntry(type, typeMap[i].count + count,
                             typeMap[i].bytes + bytes)
            ELSE typeMap[i]]
    ELSE Append(typeMap, GcDumpEntry(type, count, bytes))

RECURSIVE ParseLines(_, _, _, _)
ParseLines(lines, i, dataStarted, typeMap) ==
    IF i > Len(lines) THEN typeMap
    ELSE IF lines[i].line = "header" THEN ParseLines(lines, i + 1, TRUE, typeMap)
    ELSE IF ~dataStarted THEN ParseLines(lines, i + 1, dataStarted, typeMap)
    ELSE IF lines[i].line = "blank" THEN ParseLines(lines, i + 1, dataStarted, typeMap)
    ELSE IF RowMatches(lines[i])
    THEN ParseLines(lines, i + 1, dataStarted,
                    MapAdd(typeMap, Canonical(lines[i].type),
                           ParseCommaInt(lines[i].count),
                           ParseCommaInt(lines[i].bytes)))
    ELSE ParseLines(lines, i + 1, dataStarted, typeMap)

parseGcDumpOutput(text) == ParseLines(text, 1, FALSE, <<>>)

\* "Foo", "Foo (Bytes > 1K)", "Foo [System.Private.CoreLib] (Bytes > 100K)",
\* "Bar[]"
ReportTypes ==
    { <<Ident("Foo")>>,
      <<Ident("Foo"), Space, Bucket("(Bytes > 1K)")>>,
      <<Ident("Foo"), Space, Assembly("[System.Private.CoreLib]"), Space,
        Bucket("(Bytes > 100K)")>>,
      <<Ident("Foo"), Space, Bucket("(Bytes > 1K)"), Space, Space,
        Assembly("[System.Private.CoreLib]")>>,
      <<Ident("Bar"), ArrayBrackets>> }

\* "24" bytes in 1 object, "1,024" bytes in 12 objects
ReportNumbers ==
    { [bytes |-> <<2, 4>>, count |-> <<1>>],
      [bytes |-> <<1, CommaChar, 0, 2, 4>>, count |-> <<1, 2>>] }

ReportLines ==
    {HeaderLine, BlankLine, OtherLine}
    \cup { RowLine(n.bytes, n.count, t) : n \in ReportNumbers, t \in ReportTypes }

InitAgg ==
    /\ output \in SeqsUpTo(ReportLines, MaxLines)
    /\ results = <<>>
    /\ parsedDump = FALSE

ParseReport ==
    /\ ~parsedDump
    /\ results' = parseGcDumpOutput(output)
    /\ parsedDump' = TRUE
    /\ UNCHANGED output

NextAgg == ParseReport

(***************************************************************************)
(* The object field parser and the primitive decoder of src/src/memory.ts: *)
(* reformatDumpObjWithTypeResolution, isPrimitiveType, parsePrimitiveValue *)
(* and resolveMethodTableType.                                             *)
(*                                                                         *)
(* A text (a method-table address, a field value) is a sequence of         *)
(* one-character strings.  A BigInt is its binary digits, most significant *)
(* first and without leading zeros, so that no value is cut to the width   *)
(* of the integers of the checker.                                         *)
(***************************************************************************)
\* characters of a field value in the enumerated inputs
MaxHexLen == 2
\* fields of one object dump
MaxFields == 2

LowerHex == <<"0", "1", "2", "3", "4", "5", "6", "7", "8", "9",
              "a", "b", "c", "d", "e", "f">>
UpperHex == <<"0", "1", "2", "3", "4", "5", "6", "7", "8", "9",
              "A", "B", "C", "D", "E", "F">>

\* [0-9a-f] under the i flag
IsHexChar(c) == \E i \in 1..16 : LowerHex[i] = c \/ UpperHex[i] = c

HexVal(c) == (CHOOSE i \in 1..16 : LowerHex[i] = c \/ UpperHex[i] = c) - 1

\* value.match(/^[0-9a-f]+$/i) !== null
MatchesHex(text) == text # <<>> /\ \A i \in 1..Len(text) : IsHexChar(text[i])

\* value.match(/^0+$/)
MatchesZeros(text) == text # <<>> /\ \A i \in 1..Len(text) : text[i] = "0"

Zeros(n) == [i \in 1..n |-> 0]

RECURSIVE StripZeros(_)
StripZeros(bits) ==
    IF bits # <<>> /\ bits[1] = 0 THEN StripZeros(Tail(bits)) ELSE bits

\* the four binary digits of a hexadecimal digit
Nibble(v) == <<(v \div 8) % 2, (v \div 4) % 2, (v \div 2) % 2, v % 2>>

RECURSIVE HexBits(_)
HexBits(text) ==
    IF text = <<>> THEN <<>> ELSE Nibble(HexVal(text[1])) \o HexBits(Tail(text))

\* BigInt('0x' + hexValue), where it does not throw
BigIntOf(hexValue) == StripZeros(HexBits(hexValue))

\* the last n binary digits, filled with zeros on the left
LowBits(bits, n) ==
    IF Len(bits) >= n THEN SubSeq(bits, Len(bits) - n + 1, Len(bits))
    ELSE Zeros(n - Len(bits)) \o bits

RECURSIVE IncBits(_)
IncBits(bits) ==
    IF bits = <<>> THEN <<1>>
    ELSE IF Last(bits) = 0 THEN SubSeq(bits, 1, Len(bits) - 1) \o <<1>>
    ELSE IncBits(SubSeq(bits, 1, Len(bits) - 1)) \o <<0>>

\* binary digits of the significand of a double
MantissaBits == 53

\* Number(value): the nearest double, ties to even; an integer again
NumberOf(value) ==
    IF Len(value) <= MantissaBits THEN value
    ELSE LET mant == SubSeq(value, 1, MantissaBits)
             rest == SubSeq(value, MantissaBits + 1, Len(value))
             up   == /\ rest[1] = 1
                     /\ \/ \E j \in 2..Len(rest) : rest[j] = 1
                        \/ mant[MantissaBits] = 1
         IN (IF up THEN IncBits(mant) ELSE mant) \o Zeros(Len(rest))

\* ToInt32 of an integral double, as its 32 binary digits
ToInt32(number) == LowBits(number, 32)

RECURSIVE BitsToNat(_, _)
BitsToNat(bits, acc) ==
    IF bits = <<>> THEN acc ELSE BitsToNat(Tail(bits), 2 * acc + bits[1])

\* the signed integer of 32 binary digits
Int32Of(bits) ==
    IF bits[1] = 1 THEN (BitsToNat(Tail(bits), 0) - 2147483647) - 1
    ELSE BitsToNat(Tail(bits), 0)

\* Number(value) & mask, mask written in hexadecimal: both sides go
\* through ToInt32 and the result is a signed 32-bit integer
BitAnd(number, maskHex) ==
    LET a == ToInt32(number)
        b == ToInt32(BigIntOf(maskHex))
    IN Int32Of([i \in 1..32 |-> a[i] * b[i]])

Mask8  == <<"F", "F">>
Mask16 == <<"F", "F", "F", "F">>
Mask32 == <<"F", "F", "F", "F", "F", "F", "F", "F">>

\* what parsePrimitiveValue returns: a text that is a word, a decimal
\* number, a quoted character, or '0x' and the characters of the value.
\* The decimal text of a float is left as the bit pattern it is read from.
Decoded(kind, n, bits, chars) ==
    [kind |-> kind, n |-> n, bits |-> bits, chars |-> chars]

WordText(w)      == Decoded(w, 0, <<>>, <<>>)
IntText(n)       == Decoded("int", n, <<>>, <<>>)
BigText(sign, m) == Decoded("bigint", sign, m, <<>>)
FloatText(k, b)  == Decoded(k, 0, b, <<>>)
CharText(code)   ==
    Decoded(IF code >= 32 /\ code < 127 THEN "char" ELSE "charEscape",
            code, <<>>, <<>>)
RawHexText(hexValue) == Decoded("hex", 0, <<>>, <<"0", "x">> \o hexValue)
Undefined == Decoded("undefined", 0, <<>>, <<>>)
Thrown    == Decoded("throws", 0, <<>>, <<>>)

\* value - 2^64 for a value above the largest Int64
RECURSIVE DecBits(_)
DecBits(bits) ==
    IF Last(bits) = 1 THEN SubSeq(bits, 1, Len(bits) - 1) \o <<0>>
    ELSE DecBits(SubSeq(bits, 1, Len(bits) - 1)) \o <<1>>

MinusTwoTo64(value) ==
    IF Len(value) = 64
    THEN \* negative: the magnitude is 2^64 - value
         BigText(-1, StripZeros(IncBits([i \in 1..64 |-> 1 - value[i]])))
    ELSE BigText(1, StripZeros(DecBits(SubSeq(value, 1, Len(value) - 64))
                               \o LowBits(value, 64)))

primitives ==
    { "System.Boolean", "System.Byte", "System.SByte",
      "System.Int16", "System.UInt16", "System.Int32", "System.UInt32",
      "System.Int64", "System.UInt64", "System.Single", "System.Double",
      "System.Char", "System.IntPtr", "System.UIntPtr",
      "Boolean", "Byte", "SByte", "Int16", "UInt16", "Int32", "UInt32",
      "Int64", "UInt64", "Single", "Double", "Char", "IntPtr", "UIntPtr" }

isPrimitiveType(typeName) == typeName \in primitives

\* the switch of parsePrimitiveValue, entered once BigInt() has returned
DecodeSwitch(typeName, hexValue, value) ==
    CASE typeName \in {"System.Boolean", "Boolean"} ->
           IF value = <<>> THEN WordText("false") ELSE WordText("true")
      [] typeName \in {"System.Byte", "Byte"} ->
           IntText(BitAnd(NumberOf(value), Mask8))
      [] typeName \in {"System.SByte", "SByte"} ->
           LET byte == BitAnd(NumberOf(value), Mask8)
           IN IntText(IF byte > 127 THEN byte - 256 ELSE byte)
      [] typeName \in {"System.Int16", "Int16"} ->
           LET val == BitAnd(NumberOf(value), Mask16)
           IN IntText(IF val > 32767 THEN val - 65536 ELSE val)
      [] typeName \in {"System.UInt16", "UInt16"} ->
           IntText(BitAnd(NumberOf(value), Mask16))
      [] typeName \in {"System.Int32", "Int32"} ->
           \* val > 2147483647 is false of every signed 32-bit integer
           IntText(BitAnd(NumberOf(value), Mask32))
      [] typeName \in {"System.UInt32", "UInt32"} ->
           IntText(BitAnd(NumberOf(value), Mask32))
      [] typeName \in {"System.Int64", "Int64"} ->
           IF Len(value) >= 64 THEN MinusTwoTo64(value) ELSE BigText(1, value)
      [] typeName \in {"System.UInt64", "UInt64"} ->
           BigText(1, value)
      [] typeName \in {"System.Single", "Single"} ->
           FloatText("float32", ToInt32(NumberOf(value)))
      [] typeName \in {"System.Double", "Double"} ->
           FloatText("float64", LowBits(value, 64))
      [] typeName \in {"System.Char", "Char"} ->
           CharText(BitAnd(NumberOf(value), Mask16))
      [] typeName \in {"System.IntPtr", "IntPtr", "System.UIntPtr", "UIntPtr"} ->
           RawHexText(hexValue)
      [] OTHER -> RawHexText(hexValue)

\* a mutant: the SyntaxError of BigInt() is not caught
parsePrimitiveValue_NoCatch(typeName, hexValue) ==
    IF ~MatchesHex(hexValue) THEN Thrown
    ELSE DecodeSwitch(typeName, hexValue, BigIntOf(hexValue))

\* try { BigInt, switch } catch { return '0x' + hexValue }
parsePrimitiveValue(typeName, hexValue) ==
    IF ~MatchesHex(hexValue) THEN RawHexText(hexValue)
    ELSE DecodeSwitch(typeName, hexValue, BigIntOf(hexValue))

(***************************************************************************)
(* getObjectDetails: the object-dump query with its method-table           *)
(* resolutions, and the GC-root query.                                     *)
(***************************************************************************)
VARIABLES
    request,        \* the address and the dump path getObjectDetails was called with
    detailsCall,    \* position of getObjectDetails: "idle", "waiting", "posted"
    dumpObjProc,    \* the dumpobj process: "none", "running", "errored", "closed"
    gcRootProc,     \* the gcroot process, likewise
    rawFields,      \* rawFields of reformatDumpObjWithTypeResolution
    header,         \* its header lines
    mtSpawns,       \* the method-table addresses a dumpmt process was spawned for
    mtProcs,        \* address -> "running", "errored" or "closed"
    mtToType,       \* the Map of resolved type names
    mtOutcomes,     \* address -> how its dumpmt query ended (history)
    dumpObjResult,  \* what the promise of the object-dump query resolved to
    gcRootResult,   \* what the promise of the GC-root query resolved to
    objectDetails,  \* the objectDetails messages posted to the panel
    decoded         \* the last result of parsePrimitiveValue applied on its own

objVars == <<request, detailsCall, dumpObjProc, gcRootProc, rawFields, header, mtSpawns,
             mtProcs, mtToType, mtOutcomes, dumpObjResult, gcRootResult, objectDetails,
             decoded>>

RawField(mt, type, vt, attr, value, name) ==
    [mt |-> mt, field |-> "4000001", offset |-> "8", type |-> type,
     vt |-> vt, attr |-> attr, value |-> value, name |-> name]

EmptyMap == [k \in {} |-> ""]

\* Map.get: "" stands for undefined (an empty name is never stored)
MapGet(map, k) == IF k \in DOMAIN map THEN map[k] ELSE ""

MapSet(map, k, v) == [x \in DOMAIN map \cup {k} |-> IF x = k THEN v ELSE map[x]]

\* mtToType.get(f.mt) || f.type
ResolvedType(f, map) == IF MapGet(map, f.mt) # "" THEN MapGet(map, f.mt) ELSE f.type

isReference(f, isPrimitive) ==
    /\ ~isPrimitive
    /\ f.vt = "0"
    /\ ~MatchesZeros(f.value)
    /\ MatchesHex(f.value)

\* the body of rawFields.map
DumpObjField(f, map) ==
    LET resolvedType == ResolvedType(f, map)
        isPrimitive  == isPrimitiveType(resolvedType)
    IN [name |-> f.name,
        type |-> resolvedType,
        value |-> f.value,
        displayValue |-> IF isPrimitive
                         THEN parsePrimitiveValue(resolvedType, f.value)
                         ELSE Undefined,
        isStatic |-> f.attr = "static",
        offset |-> f.offset,
        isReference |-> isReference(f, isPrimitive),
        isPrimitive |-> isPrimitive]

\* the lines of the analyzer's output
BannerLine   == [line |-> "banner", raw |-> <<>>]
PromptLine   == [line |-> "prompt", raw |-> <<>>]
ExitLine     == [line |-> "exit", raw |-> <<>>]
EmptyLine    == [line |-> "blank", raw |-> <<>>]
TextLine(t)  == [line |-> t, raw |-> <<>>]
FieldsLine   == [line |-> "Fields:", raw |-> <<>>]
ColumnsLine  == [line |-> "columns", raw |-> <<>>]
FieldLine(f) == [line |-> "field", raw |-> <<f>>]

RECURSIVE DropBlankStart(_)
DropBlankStart(lines) ==
    IF lines # <<>> /\ lines[1].line = "blank" THEN DropBlankStart(Tail(lines))
    ELSE lines

RECURSIVE DropBlankEnd(_)
DropBlankEnd(lines) ==
    IF lines # <<>> /\ Last(lines).line = "blank"
    THEN DropBlankEnd(SubSeq(lines, 1, Len(lines) - 1))
    ELSE lines

\* the banner, prompt and exit lines go, then the blank lines at both ends
CleanLines(lines) ==
    DropBlankEnd(DropBlankStart(
        SelectSeq(lines, LAMBDA l : l.line \notin {"banner", "prompt", "exit"})))

\* the loop over the lines: [inFieldsSection, header, rawFields]
RECURSIVE ReadDumpObj(_, _, _)
ReadDumpObj(lines, i, acc) ==
    IF i > Len(lines) THEN acc
    ELSE LET l == lines[i]
         IN ReadDumpObj(lines, i + 1,
              IF l.line = "Fields:" THEN [acc EXCEPT !.inFieldsSection = TRUE]
              ELSE IF ~acc.inFieldsSection
                   THEN [acc EXCEPT !.header = Append(@, l.line)]
              ELSE IF l.line = "field"
                   THEN [acc EXCEPT !.rawFields = Append(@, l.raw[1])]
              ELSE acc)

\* a mutant: every field's address, not every distinct address
UniqueMTs_PerField(fields) ==
    SelectSeq([i \in 1..Len(fields) |-> fields[i].mt],
              LAMBDA mt : ~MatchesZeros(mt))

\* Array.from(uniqueMTs): the distinct non-zero addresses, in insertion order
UniqueMTs(fields) ==
    LET mts == [i \in 1..Len(fields) |-> fields[i].mt]
        F[i \in 0..Len(mts)] ==
            IF i = 0 THEN <<>>
            ELSE IF MatchesZeros(mts[i]) \/ \E j \in 1..Len(F[i-1]) : F[i-1][j] = mts[i]
                 THEN F[i-1]
                 ELSE Append(F[i-1], mts[i])
    IN F[Len(mts)]

NoResult == [set |-> FALSE, header |-> <<>>, fields |-> <<>>]
DumpObjResult(h, f) == [set |-> TRUE, header |-> h, fields |-> f]
CommandFailed == "Error: Command failed"
DumpObjFailed == DumpObjResult(<<CommandFailed>>, <<>>)

\* the fields an object dump can list
AddrA    == <<"7", "f", "a">>
AddrB    == <<"7", "f", "b">>
AddrZero == <<"0", "0", "0">>

FieldSamples ==
    { RawField(AddrA, "Foo", "0", "instance", <<"7", "f">>, "_next"),
      RawField(AddrA, "Bar", "0", "static", <<"0", "0">>, "_empty"),
      RawField(AddrB, "Baz", "1", "instance", <<"7", "f">>, "_count"),
      RawField(AddrZero, "Qux", "0", "instance", <<"8", "0">>, "_other") }

\* the names a dumpmt query can print
ResolvedNames == { "System.String", "System.Int32" }

DumpObjOutput(fields) ==
    <<BannerLine, PromptLine, EmptyLine, TextLine("Name: Foo"), FieldsLine,
      ColumnsLine>>
    \o [i \in 1..Len(fields) |-> FieldLine(fields[i])]
    \o <<EmptyLine, ExitLine>>

DumpObjOutputs == { DumpObjOutput(fs) : fs \in SeqsUpTo(FieldSamples, MaxFields) }

Request(address, dumpPath) == [address |-> address, dumpPath |-> dumpPath]

NoRequest == Request(<<>>, 0)

InitObj ==
    /\ request = NoRequest
    /\ detailsCall = "idle"
    /\ dumpObjProc = "none"
    /\ gcRootProc = "none"
    /\ rawFields = <<>>
    /\ header = <<>>
    /\ mtSpawns = <<>>
    /\ mtProcs = EmptyMap
    /\ mtToType = EmptyMap
    /\ mtOutcomes = EmptyMap
    /\ dumpObjResult = NoResult
    /\ gcRootResult = ""
    /\ objectDetails = <<>>
    /\ decoded = Undefined

\* resolve(v) of a promise: only the first call settles it
Settle(current, v) == IF current.set THEN current ELSE v
SettleText(current, v) == IF current # "" THEN current ELSE v

\* getObjectDetails up to its await: both queries are spawned
GetObjectDetails(address, dumpPath) ==
    /\ detailsCall = "idle"
    /\ request' = Request(address, dumpPath)
    /\ detailsCall' = "waiting"
    /\ dumpObjProc' = "running"
    /\ gcRootProc' = "running"
    /\ UNCHANGED <<rawFields, header, mtSpawns, mtProcs, mtToType, mtOutcomes,
                   dumpObjResult, gcRootResult, objectDetails, decoded>>

\* the fields, once every resolution has settled
BuildFields(fields, map) == [i \in 1..Len(fields) |-> DumpObjField(fields[i], map)]

\* 'close' of the dumpobj process
DumpObjClose(code, stdout) ==
    /\ dumpObjProc \in {"running", "errored"}
    /\ dumpObjProc = "errored" => code # 0
    /\ IF code # 0
       THEN /\ dumpObjResult' = Settle(dumpObjResult, DumpObjFailed)
            /\ dumpObjProc' = "closed"
            /\ UNCHANGED <<rawFields, header, mtSpawns, mtProcs>>
       ELSE LET read == ReadDumpObj(CleanLines(stdout), 1,
                           [inFieldsSection |-> FALSE, header |-> <<>>,
                            rawFields |-> <<>>])
                mts  == UniqueMTs(read.rawFields)
            IN /\ rawFields' = read.rawFields
               /\ header' = read.header
               /\ mtSpawns' = mts
               /\ mtProcs' = [mt \in Range(mts) |-> "running"]
               /\ IF mts = <<>>
                  THEN /\ dumpObjResult' =
                            Settle(dumpObjResult,
                                   DumpObjResult(read.header,
                                                 BuildFields(read.rawFields, mtToType)))
                       /\ dumpObjProc' = "closed"
                  ELSE /\ dumpObjProc' = "resolving"
                       /\ UNCHANGED dumpObjResult
    /\ UNCHANGED <<request, detailsCall, gcRootProc, mtToType, mtOutcomes, gcRootResult,
                   objectDetails, decoded>>

\* 'error' of the dumpobj process
DumpObjError ==
    /\ dumpObjProc = "running"
    /\ dumpObjProc' = "errored"
    /\ dumpObjResult' = Settle(dumpObjResult, DumpObjFailed)
    /\ UNCHANGED <<request, detailsCall, gcRootProc, rawFields, header, mtSpawns,
                   mtProcs, mtToType, mtOutcomes, gcRootResult, objectDetails, decoded>>

\* how a dumpmt query ended: its exit code and the name it printed
Outcome(code, name) == [how |-> "close", code |-> code, name |-> name]
SpawnFailed == [how |-> "error", code |-> 1, name |-> ""]

\* what resolveMethodTableType resolves to on 'close': the name of the
\* first Name: line, or null ("") on a non-zero exit or without such a line
resolveMethodTableType(code, name) == IF code = 0 THEN name ELSE ""

\* 'close' of one dumpmt process, and the continuation of its await
MtClose(mt, code, name) ==
    /\ mt \in DOMAIN mtProcs
    /\ mtProcs[mt] \in {"running", "errored"}
    /\ mtProcs[mt] = "errored" => code # 0
    /\ mtProcs' = [mtProcs EXCEPT ![mt] = "closed"]
    /\ LET typeName == resolveMethodTableType(code, name)
       IN mtToType' = IF mtProcs[mt] = "running" /\ typeName # ""
                      THEN MapSet(mtToType, mt, typeName)
                      ELSE mtToType
    /\ mtOutcomes' = IF mtProcs[mt] = "running"
                     THEN MapSet(mtOutcomes, mt, Outcome(code, name))
                     ELSE mtOutcomes
    /\ UNCHANGED <<request, detailsCall, dumpObjProc, gcRootProc, rawFields, header,
                   mtSpawns, dumpObjResult, gcRootResult, objectDetails, decoded>>

\* 'error' of one dumpmt process: resolve(null)
MtError(mt) ==
    /\ mt \in DOMAIN mtProcs
    /\ mtProcs[mt] = "running"
    /\ mtProcs' = [mtProcs EXCEPT ![mt] = "errored"]
    /\ mtOutcomes' = MapSet(mtOutcomes, mt, SpawnFailed)
    /\ UNCHANGED <<request, detailsCall, dumpObjProc, gcRootProc, rawFields, header,
                   mtSpawns, mtToType, dumpObjResult, gcRootResult,
                   objectDetails, decoded>>

\* Promise.all has settled: the fields are built and the query resolves
FinishDumpObj ==
    /\ dumpObjProc = "resolving"
    /\ \A mt \in DOMAIN mtProcs : mtProcs[mt] # "running"
    /\ dumpObjProc' = "closed"
    /\ dumpObjResult' =
         Settle(dumpObjResult, DumpObjResult(header, BuildFields(rawFields, mtToType)))
    /\ UNCHANGED <<request, detailsCall, gcRootProc, rawFields, header, mtSpawns,
                   mtProcs, mtToType, mtOutcomes, gcRootResult, objectDetails, decoded>>

\* 'close' of the gcroot process
GcRootClose(code) ==
    /\ gcRootProc \in {"running", "errored"}
    /\ gcRootProc = "errored" => code # 0
    /\ gcRootProc' = "closed"
    /\ gcRootResult' = SettleText(gcRootResult,
                                  IF code # 0 THEN CommandFailed ELSE "roots")
    /\ UNCHANGED <<request, detailsCall, dumpObjProc, rawFields, header, mtSpawns,
                   mtProcs, mtToType, mtOutcomes, dumpObjResult, objectDetails, decoded>>

\* 'error' of the gcroot process
GcRootError ==
    /\ gcRootProc = "running"
    /\ gcRootProc' = "errored"
    /\ gcRootResult' = SettleText(gcRootResult, CommandFailed)
    /\ UNCHANGED <<request, detailsCall, dumpObjProc, rawFields, header, mtSpawns,
                   mtProcs, mtToType, mtOutcomes, dumpObjResult, objectDetails, decoded>>

\* a mutant: the message does not wait for the GC-root query
PostObjectDetails_Early ==
    /\ detailsCall = "waiting"
    /\ dumpObjResult.set
    /\ detailsCall' = "posted"
    /\ objectDetails' = Append(objectDetails,
                               [address |-> request.address,
                                dumpPath |-> request.dumpPath,
                                dumpObj |-> dumpObjResult, gcRoot |-> gcRootResult])
    /\ UNCHANGED <<request, dumpObjProc, gcRootProc, rawFields, header, mtSpawns,
                   mtProcs, mtToType, mtOutcomes, dumpObjResult, gcRootResult, decoded>>

\* both promises have settled: the objectDetails message
PostObjectDetails ==
    /\ detailsCall = "waiting"
    /\ dumpObjResult.set
    /\ gcRootResult # ""
    /\ detailsCall' = "posted"
    /\ objectDetails' = Append(objectDetails,
                               [address |-> request.address,
                                dumpPath |-> request.dumpPath,
                                dumpObj |-> dumpObjResult, gcRoot |-> gcRootResult])
    /\ UNCHANGED <<request, dumpObjProc, gcRootProc, rawFields, header, mtSpawns,
                   mtProcs, mtToType, mtOutcomes, dumpObjResult, gcRootResult, decoded>>

ExitCodes == {0, 1}

NextObj ==
    \/ \E address \in {AddrA, AddrB}, dumpPath \in {1, 2} :
         GetObjectDetails(address, dumpPath)
    \/ \E code \in ExitCodes, stdout \in DumpObjOutputs : DumpObjClose(code, stdout)
    \/ DumpObjError
    \/ \E mt \in DOMAIN mtProcs, code \in ExitCodes, name \in ResolvedNames \cup {""} :
         MtClose(mt, code, name)
    \/ \E mt \in DOMAIN mtProcs : MtError(mt)
    \/ FinishDumpObj
    \/ \E code \in ExitCodes : GcRootClose(code)
    \/ GcRootError
    \/ PostObjectDetails

\* the characters of the enumerated field values; "g" is not hexadecimal
ValueChars == { "0", "7", "8", "F", "f", "g" }

\* values as wide as the analyzer prints them
WideValues ==
    { <<"F","F","F","F","F","F","F","F">>,
      <<"8","0","0","0","0","0","0","0">>,
      <<"7","F","F","F","F","F","F","F">>,
      <<"0","0","0","0","0","0","0","0","0","0","0","0","0","0","8","0">>,
      <<"0","0","0","0","0","0","0","0","F","F","F","F","F","F","F","F">>,
      <<"F","F","F","F","F","F","F","F","F","F","F","F","F","F","F","F">>,
      <<"0","0","2","0","0","0","0","0","0","0","0","0","0","0","0","1">>,
      <<"7","f","8","d","1","2","3","4">> }

FieldValues == (SeqsUpTo(ValueChars, MaxHexLen) \ {<<>>}) \cup WideValues

FieldTypes == primitives \cup { "System.String", "Foo" }

\* one field whose method table has been looked up: the state in which
\* reformatDumpObjWithTypeResolution builds its fields
InitField ==
    /\ request = Request(AddrB, 1)
    /\ detailsCall = "waiting"
    /\ dumpObjProc = "resolving"
    /\ gcRootProc = "running"
    /\ rawFields \in { <<RawField(AddrA, type, vt, "instance", value, "_value")>> :
                          type \in FieldTypes, vt \in {"0", "1"},
                          value \in FieldValues }
    /\ header = <<>>
    /\ mtSpawns = <<AddrA>>
    /\ mtProcs = [mt \in {AddrA} |-> "closed"]
    /\ \E n \in ResolvedNames \cup {""} :
          /\ mtOutcomes = MapSet(EmptyMap, AddrA, Outcome(0, n))
          /\ mtToType = IF n = "" THEN EmptyMap ELSE MapSet(EmptyMap, AddrA, n)
    /\ dumpObjResult = NoResult
    /\ gcRootResult = ""
    /\ objectDetails = <<>>
    /\ decoded = Undefined

\* parsePrimitiveValue applied to the field's raw type and value
DecodeValue ==
    /\ rawFields # <<>>
    /\ decoded' = parsePrimitiveValue(rawFields[1].type, rawFields[1].value)
    /\ UNCHANGED <<request, detailsCall, dumpObjProc, gcRootProc, rawFields, header,
                   mtSpawns, mtProcs, mtToType, mtOutcomes, dumpObjResult, gcRootResult,
                   objectDetails>>

NextField == FinishDumpObj \/ DecodeValue

(***************************************************************************)
(* The address extractor, parseHeapAddresses of src/src/memory.ts, and the *)
(* CPU hot-path extractor, parseCpuTraceOutput.  Both read the text of a   *)
(* tool's output (output) line by line into results.                       *)
(*                                                                         *)
(* A line is its words, the runs of characters that are not white space,   *)
(* each with the number of white-space characters before it, and the       *)
(* white space at its end.  A word is a sequence of one-character strings. *)
(***************************************************************************)
\* lines of a tool's output
MaxOutputLines == 3

Word(sp, w) == [sp |-> sp, w |-> w]
Line(words, trail) == [words |-> words, trail |-> trail]

IsDigitChar(c) == \E i \in 1..10 : LowerHex[i] = c

\* \d+
MatchesDigits(text) == text # <<>> /\ \A i \in 1..Len(text) : IsDigitChar(text[i])

\* parseInt(text, 10) of a text of digits
RECURSIVE ParseInt10(_, _)
ParseInt10(text, acc) ==
    IF text = <<>> THEN acc
    ELSE ParseInt10(Tail(text), acc * 10 + HexVal(text[1]))

HeapObject(address, size) == [address |-> address, size |-> size]

\* a mutant: the pattern is not anchored at the end of the line
HeapLineMatches_Unanchored(l) ==
    /\ Len(l.words) >= 3
    /\ MatchesHex(l.words[1].w)
    /\ MatchesHex(l.words[2].w)
    /\ MatchesDigits(l.words[3].w)

\* line.match(/^\s*([0-9a-f]+)\s+[0-9a-f]+\s+(\d+)\s*$/i)
HeapLineMatches(l) ==
    /\ Len(l.words) = 3
    /\ MatchesHex(l.words[1].w)
    /\ MatchesHex(l.words[2].w)
    /\ MatchesDigits(l.words[3].w)

RECURSIVE HeapLoop(_, _, _)
HeapLoop(lines, i, found) ==
    IF i > Len(lines) THEN found
    ELSE HeapLoop(lines, i + 1,
           IF HeapLineMatches(lines[i])
           THEN Append(found, HeapObject(lines[i].words[1].w,
                                         ParseInt10(lines[i].words[3].w, 0)))
           ELSE found)

parseHeapAddresses(text) == HeapLoop(text, 1, <<>>)

\* lines of a dumpheap output
HeapDataA  == Line(<<Word(0, <<"7","f","8","d">>), Word(1, <<"7","f","f","a">>),
                     Word(5, <<"2","4">>)>>, 0)
HeapDataB  == Line(<<Word(2, <<"7","F","8","E">>), Word(1, <<"7","f","f","a">>),
                     Word(5, <<"3","2">>)>>, 1)
HeapDataC  == Line(<<Word(0, <<"1","0">>), Word(1, <<"2","0">>), Word(1, <<"3","0">>)>>, 0)
HeapBanner == Line(<<Word(0, <<"L","o","a","d","i","n","g">>), Word(1, <<"c","o","r","e">>),
                     Word(1, <<"d","u","m","p">>)>>, 0)
HeapPrompt == Line(<<Word(0, <<">">>), Word(1, <<"d","u","m","p","h","e","a","p">>)>>, 0)
HeapHeader == Line(<<Word(5, <<"A","d","d","r","e","s","s">>), Word(5, <<"M","T">>),
                     Word(5, <<"S","i","z","e">>)>>, 0)
HeapStats  == Line(<<Word(0, <<"7","f","f","a">>), Word(5, <<"3">>), Word(5, <<"7","2">>),
                     Word(1, <<"F","o","o">>)>>, 0)
HeapHexSize == Line(<<Word(0, <<"7","f","8","d">>), Word(1, <<"7","f","f","a">>),
                      Word(5, <<"2","a">>)>>, 0)
HeapBlank  == Line(<<>>, 1)
HeapTotal  == Line(<<Word(0, <<"T","o","t","a","l">>), Word(1, <<"3">>),
                     Word(1, <<"o","b","j","e","c","t","s">>)>>, 0)

HeapLines == { HeapDataA, HeapDataB, HeapDataC, HeapBanner, HeapPrompt, HeapHeader,
               HeapStats, HeapHexSize, HeapBlank, HeapTotal }

\* three data lines among five banner and prompt lines
HeapMixed == <<HeapBanner, HeapPrompt, HeapHeader, HeapDataA, HeapBlank, HeapDataB,
               HeapDataC, HeapTotal>>

InitHeap ==
    /\ output \in SeqsUpTo(HeapLines, MaxOutputLines) \cup {HeapMixed}
    /\ results = <<>>
    /\ parsedDump = FALSE

ParseHeap ==
    /\ ~parsedDump
    /\ results' = parseHeapAddresses(output)
    /\ parsedDump' = TRUE
    /\ UNCHANGED output

NextHeap == ParseHeap

(***************************************************************************)
(* parseCpuTraceOutput of src/src/webview.ts.  A ranked row is a rank      *)
(* ("1."), the words of a function name, and two percentages, the first    *)
(* at least two white-space characters after the name.                     *)
(***************************************************************************)
\* ^\d+\. up to the white space after it
MatchesRank(t) ==
    /\ t.sp = 0
    /\ Len(t.w) >= 2
    /\ t.w[Len(t.w)] = "."
    /\ MatchesDigits(SubSeq(t.w, 1, Len(t.w) - 1))

IsPctChar(c) == IsDigitChar(c) \/ c = "."

\* the length of the longest run of [\d.] from position i of a word
RECURSIVE PctRun(_, _)
PctRun(w, i) ==
    IF i > Len(w) \/ ~IsPctChar(w[i]) THEN 0 ELSE 1 + PctRun(w, i + 1)

\* ([\d.]+)% at the start of a word
StartsWithPct(w) == PctRun(w, 1) >= 1 /\ Len(w) > PctRun(w, 1) /\ w[PctRun(w, 1) + 1] = "%"

\* ([\d.]+)% followed by white space
IsPctWord(w) == StartsWithPct(w) /\ Len(w) = PctRun(w, 1) + 1

PctText(w) == SubSeq(w, 1, PctRun(w, 1))

\* \s{2,}([\d.]+)%\s+([\d.]+)% after the k-th word
PctsFollow(words, k) ==
    /\ k + 2 <= Len(words)
    /\ words[k + 1].sp >= 2
    /\ IsPctWord(words[k + 1].w)
    /\ StartsWithPct(words[k + 2].w)

\* the ends the lazy (.+?) can take, nearest first; a name of white space
\* alone (k = 1) is tried last, when the pattern backtracks into \s+
NameEnds(words) == { k \in 2..Len(words) : PctsFollow(words, k) }

BlankName(words) == PctsFollow(words, 1) /\ words[2].sp >= 4

FirstOf(S) == CHOOSE k \in S : \A j \in S : k <= j

\* line.match(/^\d+\.\s+(.+?)\s{2,}([\d.]+)%\s+([\d.]+)%/)
CpuLineMatches(l) ==
    /\ Len(l.words) >= 3
    /\ MatchesRank(l.words[1])
    /\ NameEnds(l.words) # {} \/ BlankName(l.words)

NameEnd(l) == IF NameEnds(l.words) # {} THEN FirstOf(NameEnds(l.words)) ELSE 1

\* match[1].trim(): the words of the name, with the white space between them
FuncName(l) ==
    [i \in 1..(NameEnd(l) - 1) |->
        Word(IF i = 1 THEN 0 ELSE l.words[i + 1].sp, l.words[i + 1].w)]

\* the run of digits from position i of a text
RECURSIVE DigitRun(_, _)
DigitRun(text, i) ==
    IF i > Len(text) \/ ~IsDigitChar(text[i]) THEN 0 ELSE 1 + DigitRun(text, i + 1)

RECURSIVE DropTrailingZeros(_)
DropTrailingZeros(text) ==
    IF text # <<>> /\ text[Len(text)] = "0"
    THEN DropTrailingZeros(SubSeq(text, 1, Len(text) - 1))
    ELSE text

NaN == [nan |-> TRUE, int |-> 0, frac |-> <<>>]

\* parseFloat of a text of [\d.]+: the digits before the first point and the
\* digits between it and the next; NaN when there is no digit at either side
parseFloat(text) ==
    LET ni == DigitRun(text, 1)
        nf == IF ni < Len(text) /\ text[ni + 1] = "."
              THEN DigitRun(text, ni + 2) ELSE 0
    IN  IF ni = 0 /\ nf = 0 THEN NaN
        ELSE [nan |-> FALSE,
              int |-> ParseInt10(SubSeq(text, 1, ni), 0),
              frac |-> DropTrailingZeros(SubSeq(text, ni + 2, ni + 1 + nf))]

NonActivities == <<Word(0, <<"(","N","o","n","-","A","c","t","i","v","i","t","i","e","s",")">>)>>
Threads == <<Word(0, <<"T","h","r","e","a","d","s">>)>>

CpuTraceEntry(l) ==
    [function |-> FuncName(l),
     inclusivePercent |-> parseFloat(PctText(l.words[NameEnd(l) + 1].w)),
     exclusivePercent |-> parseFloat(PctText(l.words[NameEnd(l) + 2].w))]

\* a row is pushed when it matches and is neither of the two rows
CpuRowKept(l) ==
    /\ CpuLineMatches(l)
    /\ FuncName(l) # NonActivities
    /\ FuncName(l) # Threads

RECURSIVE CpuLoop(_, _, _)
CpuLoop(lines, i, found) ==
    IF i > Len(lines) THEN found
    ELSE CpuLoop(lines, i + 1,
           IF CpuRowKept(lines[i]) THEN Append(found, CpuTraceEntry(lines[i]))
           ELSE found)

parseCpuTraceOutput(text) == CpuLoop(text, 1, <<>>)

\* rows of a topN report
Rank(d) == Word(0, <<d, ".">>)
Pct1(sp, a) == Word(sp, <<a, "%">>)
Pct4(sp, a, b, c) == Word(sp, <<a, b, ".", c, "%">>)

CpuRowFoo     == Line(<<Rank("1"), Word(1, <<"F","o","o",".","B","a","r","(",")">>),
                        Pct4(2, "4", "5", "5"), Pct4(3, "1", "2", "0")>>, 0)
CpuRowNonAct  == Line(<<Rank("2"), Word(1, NonActivities[1].w),
                        Word(2, <<"1","0","0","%">>), Pct1(2, "0")>>, 0)
CpuRowThreads == Line(<<Rank("3"), Word(1, Threads[1].w),
                        Pct4(2, "9", "9", "9"), Word(2, <<"0",".","1","%">>)>>, 0)
CpuRowMyThreads == Line(<<Rank("4"), Word(1, <<"M","y">>), Word(1, Threads[1].w),
                          Pct1(4, "3"), Pct1(2, "5")>>, 1)
CpuRowBig     == Line(<<Rank("5"), Word(1, <<"B","i","g">>),
                        Word(2, <<"1","5","0",".","0","%">>), Pct4(2, "2", "0", "0")>>, 0)
CpuRowOdd     == Line(<<Rank("6"), Word(1, <<"O","d","d">>),
                        Word(2, <<".","%">>), Pct1(2, "5")>>, 0)
CpuRowNarrow  == Line(<<Rank("7"), Word(1, <<"F","o","o">>), Pct1(1, "4"), Pct1(1, "2")>>, 0)
CpuRowShort   == Line(<<Rank("8"), Word(1, <<"F","o","o">>), Pct1(2, "4")>>, 0)
CpuBanner     == Line(<<Word(0, <<"T","o","p">>), Word(1, <<"5">>),
                        Word(1, <<"F","u","n","c","t","i","o","n","s">>)>>, 0)
CpuBlank      == Line(<<>>, 0)

CpuLines == { CpuRowFoo, CpuRowNonAct, CpuRowThreads, CpuRowMyThreads, CpuRowBig,
              CpuRowOdd, CpuRowNarrow, CpuRowShort, CpuBanner, CpuBlank }

InitCpu ==
    /\ output \in SeqsUpTo(CpuLines, MaxOutputLines)
    /\ results = <<>>
    /\ parsedDump = FALSE

ParseCpu ==
    /\ ~parsedDump
    /\ results' = parseCpuTraceOutput(output)
    /\ parsedDump' = TRUE
    /\ UNCHANGED output

NextCpu == ParseCpu

(***************************************************************************)
(* The memory snapshot and the type-filtered heap scan: takeMemorySnapshot *)
(* and getTypeRoots of src/src/memory.ts, with the module variable         *)
(* currentHeapDump they share.                                             *)
(*                                                                         *)
(* A child process is "none", "running", "errored" (its 'error' event was  *)
(* emitted), "exit0" or "exit1" (its 'close' event was emitted with the    *)
(* code 0 or another code).  After 'error' a 'close' with a code other     *)
(* than 0 may follow.  An 'error' event nobody listens to is thrown by the *)
(* emitter: it is counted in uncaught, and no 'close' follows it.          *)
(*                                                                         *)
(* A dump file is "absent", "partial" (the collection is writing it) or    *)
(* "complete" (the collection exited 0).  Each call that collects takes a  *)
(* fresh path (Date.now() in the name).  A panel exists throughout; one    *)
(* snapshot is taken.                                                      *)
(***************************************************************************)
VARIABLES
    currentHeapDump,  \* the module variable: 0 (null) or the path of a dump
    dumpFile,         \* the state of the file at each path
    nextDump,         \* the next fresh path
    gcdumpProc,       \* takeMemorySnapshot: the report process
    dumpProc,         \* takeMemorySnapshot: the dump-collect process
    dumpPath,         \* takeMemorySnapshot: 0 or the path it collects to
    gcdumpDone,       \* takeMemorySnapshot: the four flags of the closure
    dumpDone,
    gcdumpSuccess,
    dumpSuccess,
    roots,            \* each getTypeRoots call: its position and processes
    posted,           \* the messages posted to the panel, in order
    uncaught          \* 'error' events thrown for want of a listener

memVars == <<currentHeapDump, dumpFile, nextDump, gcdumpProc, dumpProc, dumpPath,
             gcdumpDone, dumpDone, gcdumpSuccess, dumpSuccess, roots, posted,
             uncaught>>

\* getTypeRoots calls
MaxRootsCalls == 2

RootsCalls == 1..MaxRootsCalls

\* the paths: one for each call that may collect
DumpPaths == 1..(MaxRootsCalls + 1)

\* a message to the panel; call is 0 for the snapshot
Message(type, call, hasDump, totalObjects) ==
    [type |-> type, call |-> call, hasDump |-> hasDump, totalObjects |-> totalObjects]

\* a mutant: a recorded path is taken to be on disk
existsSync_Always(files, p) == TRUE

existsSync(files, p) == files[p] # "absent"

ExitOf(code) == IF code = 0 THEN "exit0" ELSE "exit1"

\* the exit codes a process in state p can close with
ClosesWith(p) ==
    IF p = "running" THEN ExitCodes ELSE IF p = "errored" THEN {1} ELSE {}

RootsCall(pc, collect, scan, dump, target) ==
    [pc |-> pc, collect |-> collect, scan |-> scan, dump |-> dump, target |-> target]

InitMemory ==
    /\ currentHeapDump = 0
    /\ dumpFile = [p \in DumpPaths |-> "absent"]
    /\ nextDump = 1
    /\ gcdumpProc = "none"
    /\ dumpProc = "none"
    /\ dumpPath = 0
    /\ gcdumpDone = FALSE
    /\ dumpDone = FALSE
    /\ gcdumpSuccess = FALSE
    /\ dumpSuccess = FALSE
    /\ roots = [c \in RootsCalls |-> RootsCall("idle", "none", "none", 0, 0)]
    /\ posted = <<>>
    /\ uncaught = 0

TakeMemorySnapshot ==
    /\ gcdumpProc = "none"
    /\ posted' = Append(posted, Message("snapshotStarted", 0, FALSE, 0))
    /\ dumpPath' = nextDump
    /\ nextDump' = nextDump + 1
    /\ gcdumpProc' = "running"
    /\ dumpProc' = "running"
    /\ UNCHANGED <<currentHeapDump, dumpFile, gcdumpDone, dumpDone, gcdumpSuccess,
                   dumpSuccess, roots, uncaught>>

\* a mutant: the message does not wait for the dump collection
checkComplete_ReportOnly(gDone, dDone, gSuccess, dSuccess, files) ==
    IF ~gDone
    THEN UNCHANGED <<currentHeapDump, posted>>
    ELSE IF gSuccess
    THEN /\ currentHeapDump' =
              IF dSuccess /\ existsSync(files, dumpPath) THEN dumpPath ELSE currentHeapDump
         /\ posted' = Append(posted, Message("memorySnapshot", 0, dSuccess, 0))
    ELSE /\ posted' = Append(posted, Message("snapshotError", 0, FALSE, 0))
         /\ UNCHANGED currentHeapDump

\* checkComplete, with the flags as the handler calling it has set them
checkComplete(gDone, dDone, gSuccess, dSuccess, files) ==
    IF ~gDone \/ ~dDone
    THEN UNCHANGED <<currentHeapDump, posted>>
    ELSE IF gSuccess
    THEN /\ currentHeapDump' =
              IF dSuccess /\ existsSync(files, dumpPath) THEN dumpPath ELSE currentHeapDump
         /\ posted' = Append(posted, Message("memorySnapshot", 0, dSuccess, 0))
    ELSE /\ posted' = Append(posted, Message("snapshotError", 0, FALSE, 0))
         /\ UNCHANGED currentHeapDump

\* gcdumpProc.on('close')
GcdumpClose(code) ==
    /\ code \in ClosesWith(gcdumpProc)
    /\ gcdumpProc' = ExitOf(code)
    /\ gcdumpDone' = TRUE
    /\ gcdumpSuccess' = (code = 0)
    /\ checkComplete(TRUE, dumpDone, code = 0, dumpSuccess, dumpFile)
    /\ UNCHANGED <<dumpFile, nextDump, dumpProc, dumpPath, dumpDone, dumpSuccess, roots,
                   uncaught>>

\* gcdumpProc.on('error')
GcdumpError ==
    /\ gcdumpProc = "running"
    /\ gcdumpProc' = "errored"
    /\ gcdumpDone' = TRUE
    /\ gcdumpSuccess' = FALSE
    /\ checkComplete(TRUE, dumpDone, FALSE, dumpSuccess, dumpFile)
    /\ UNCHANGED <<dumpFile, nextDump, dumpProc, dumpPath, dumpDone, dumpSuccess, roots,
                   uncaught>>

\* the dump-collect process starts to write its file
DumpWrite ==
    /\ dumpProc = "running"
    /\ dumpFile[dumpPath] = "absent"
    /\ dumpFile' = [dumpFile EXCEPT ![dumpPath] = "partial"]
    /\ UNCHANGED <<currentHeapDump, nextDump, gcdumpProc, dumpProc, dumpPath, gcdumpDone,
                   dumpDone, gcdumpSuccess, dumpSuccess, roots, posted, uncaught>>

\* dumpProc.on('close'); a collection that exits 0 has written its file
DumpClose(code) ==
    /\ code \in ClosesWith(dumpProc)
    /\ dumpProc' = ExitOf(code)
    /\ dumpFile' = IF code = 0 THEN [dumpFile EXCEPT ![dumpPath] = "complete"] ELSE dumpFile
    /\ dumpDone' = TRUE
    /\ dumpSuccess' = (code = 0)
    /\ checkComplete(gcdumpDone, TRUE, gcdumpSuccess, code = 0, dumpFile')
    /\ UNCHANGED <<nextDump, gcdumpProc, dumpPath, gcdumpDone, gcdumpSuccess, roots,
                   uncaught>>

\* dumpProc.on('error')
DumpError ==
    /\ dumpProc = "running"
    /\ dumpProc' = "errored"
    /\ dumpDone' = TRUE
    /\ dumpSuccess' = FALSE
    /\ checkComplete(gcdumpDone, TRUE, gcdumpSuccess, FALSE, dumpFile)
    /\ UNCHANGED <<dumpFile, nextDump, gcdumpProc, dumpPath, gcdumpDone, gcdumpSuccess,
                   roots, uncaught>>

snapVars == <<gcdumpProc, dumpProc, dumpPath, gcdumpDone, dumpDone, gcdumpSuccess,
              dumpSuccess>>

\* the call up to its first wait: rootsStarted, then a collection to a fresh
\* path when no dump is recorded or its file is gone, else the scan at once
GetTypeRoots(c) ==
    /\ roots[c].pc = "idle"
    /\ IF currentHeapDump = 0 \/ ~existsSync(dumpFile, currentHeapDump)
       THEN /\ currentHeapDump' = nextDump
            /\ nextDump' = nextDump + 1
            /\ roots' = [roots EXCEPT ![c] =
                            RootsCall("collecting", "running", "none", nextDump, 0)]
       ELSE /\ roots' = [roots EXCEPT ![c] =
                            RootsCall("scanning", "none", "running", 0, currentHeapDump)]
            /\ UNCHANGED <<currentHeapDump, nextDump>>
    /\ posted' = Append(posted, Message("rootsStarted", c, FALSE, 0))
    /\ UNCHANGED <<dumpFile, snapVars, uncaught>>

\* the collection starts to write its file
CollectWrite(c) ==
    /\ roots[c].collect = "running"
    /\ dumpFile[roots[c].dump] = "absent"
    /\ dumpFile' = [dumpFile EXCEPT ![roots[c].dump] = "partial"]
    /\ UNCHANGED <<currentHeapDump, nextDump, snapVars, roots, posted, uncaught>>

\* collectProc.on('close'): resolve on 0 and the call goes on to spawn the
\* scan of whatever currentHeapDump then names; reject otherwise, caught into
\* rootsError.  After 'error' the promise is settled already.
CollectClose(c, code) ==
    /\ code \in ClosesWith(roots[c].collect)
    /\ dumpFile' = IF code = 0 THEN [dumpFile EXCEPT ![roots[c].dump] = "complete"]
                   ELSE dumpFile
    /\ IF roots[c].collect = "errored"
       THEN /\ roots' = [roots EXCEPT ![c].collect = ExitOf(code)]
            /\ UNCHANGED posted
       ELSE IF code = 0
       THEN /\ roots' = [roots EXCEPT ![c] =
                            RootsCall("scanning", "exit0", "running", roots[c].dump,
                                      currentHeapDump)]
            /\ UNCHANGED posted
       ELSE /\ roots' = [roots EXCEPT ![c].collect = ExitOf(code), ![c].pc = "done"]
            /\ posted' = Append(posted, Message("rootsError", c, FALSE, 0))
    /\ UNCHANGED <<currentHeapDump, nextDump, snapVars, uncaught>>

\* collectProc.on('error', reject)
CollectError(c) ==
    /\ roots[c].collect = "running"
    /\ roots' = [roots EXCEPT ![c].collect = "errored", ![c].pc = "done"]
    /\ posted' = Append(posted, Message("rootsError", c, FALSE, 0))
    /\ UNCHANGED <<currentHeapDump, dumpFile, nextDump, snapVars, uncaught>>

\* what a scan can print
ScanOutputs == { <<>>, <<HeapBanner, HeapDataA, HeapDataB>> }

\* dumpheapProc.on('close')
ScanClose(c, code, stdout) ==
    /\ roots[c].scan = "running"
    /\ roots' = [roots EXCEPT ![c].scan = ExitOf(code), ![c].pc = "done"]
    /\ posted' = Append(posted,
                   IF code # 0 THEN Message("rootsError", c, FALSE, 0)
                   ELSE Message("rootsResult", c, FALSE, Len(parseHeapAddresses(stdout))))
    /\ UNCHANGED <<currentHeapDump, dumpFile, nextDump, snapVars, uncaught>>

\* the scan fails to spawn: dumpheapProc has no listener for 'error'
ScanError(c) ==
    /\ roots[c].scan = "running"
    /\ roots' = [roots EXCEPT ![c].scan = "errored"]
    /\ uncaught' = uncaught + 1
    /\ UNCHANGED <<currentHeapDump, dumpFile, nextDump, snapVars, posted>>

\* a complete dump is removed from the temporary directory
FileDeleted(p) ==
    /\ dumpFile[p] = "complete"
    /\ dumpFile' = [dumpFile EXCEPT ![p] = "absent"]
    /\ UNCHANGED <<currentHeapDump, nextDump, snapVars, roots, posted, uncaught>>

NextSnapshot ==
    \/ TakeMemorySnapshot
    \/ \E code \in ExitCodes : GcdumpClose(code)
    \/ GcdumpError
    \/ DumpWrite
    \/ \E code \in ExitCodes : DumpClose(code)
    \/ DumpError

NextRoots ==
    \/ \E c \in RootsCalls : GetTypeRoots(c)
    \/ \E c \in RootsCalls : CollectWrite(c)
    \/ \E c \in RootsCalls, code \in ExitCodes : CollectClose(c, code)
    \/ \E c \in RootsCalls : CollectError(c)
    \/ \E c \in RootsCalls, code \in ExitCodes, stdout \in ScanOutputs :
           ScanClose(c, code, stdout)
    \/ \E c \in RootsCalls : ScanError(c)
    \/ \E p \in DumpPaths : FileDeleted(p)

NextMemory == NextSnapshot \/ NextRoots

(***************************************************************************)
(* The objects panel of the webview: the list of a type's objects, the     *)
(* expansion of an item, and the details that answer a getObjectDetails    *)
(* message.                                                                *)
(***************************************************************************)
VARIABLES
    currentDumpPath,     \* the dump of the last rootsResult; 0 while it has none
    objectDetailsCache,  \* the addresses that have an entry in the cache
    objectItems,         \* the .object-item elements of the panel, by address
    requests             \* getObjectDetails messages not yet answered

panelVars == <<currentDumpPath, objectDetailsCache, objectItems, requests>>

\* dumps a rootsResult may name
MaxDumps == 2

\* unanswered getObjectDetails messages of one address and dump
MaxRequests == 2

PanelDumps == 1..MaxDumps

PanelAddresses == {AddrA, AddrB}

PanelRequests == [address : PanelAddresses, dumpPath : PanelDumps]

\* an item as renderObjectsResult writes it: collapsed, both panes 'Loading...'
NewItem == [expanded |-> FALSE, content |-> "loading"]

NoItems == [a \in {} |-> NewItem]

InitPanel ==
    /\ currentDumpPath = 0
    /\ objectDetailsCache = {}
    /\ objectItems = NoItems
    /\ requests = [r \in PanelRequests |-> 0]

\* showObjectsPanel with content that is not a list of objects: the
\* 'rootsStarted' and 'rootsError' messages
ShowObjectsPanel ==
    /\ objectItems' = NoItems
    /\ UNCHANGED <<currentDumpPath, objectDetailsCache, requests>>

\* renderObjectsResult of a rootsResult that carries a message and no dump
RenderMessage ==
    /\ currentDumpPath' = 0
    /\ objectItems' = NoItems
    /\ UNCHANGED <<objectDetailsCache, requests>>

\* renderObjectsResult of a rootsResult with objects: the panel is written anew
renderObjectsResult(objects, path) ==
    /\ currentDumpPath' = path
    /\ objectItems' = [a \in objects |-> NewItem]
    /\ UNCHANGED <<objectDetailsCache, requests>>

\* a click on the header of an item
HeaderClick(address) ==
    /\ address \in DOMAIN objectItems
    /\ LET wasExpanded == objectItems[address].expanded
           asks == /\ ~wasExpanded
                   /\ address \notin objectDetailsCache
                   /\ currentDumpPath # 0
           r == [address |-> address, dumpPath |-> currentDumpPath]
       IN /\ asks => requests[r] < MaxRequests
          /\ objectItems' = [objectItems EXCEPT ![address].expanded = ~wasExpanded]
          /\ requests' = IF asks THEN [requests EXCEPT ![r] = @ + 1] ELSE requests
    /\ UNCHANGED <<currentDumpPath, objectDetailsCache>>

\* the 'objectDetails' message that answers request r: updateObjectDetails
updateObjectDetails(r) ==
    /\ requests[r] > 0
    /\ requests' = [requests EXCEPT ![r] = @ - 1]
    /\ objectDetailsCache' = objectDetailsCache \cup {r.address}
    /\ objectItems' =
           IF r.address \in DOMAIN objectItems
           THEN [objectItems EXCEPT ![r.address].content = "details"]
           ELSE objectItems
    /\ UNCHANGED currentDumpPath

NextPanel ==
    \/ ShowObjectsPanel
    \/ RenderMessage
    \/ \E objects \in SUBSET PanelAddresses, path \in PanelDumps :
           renderObjectsResult(objects, path)
    \/ \E address \in PanelAddresses : HeaderClick(address)
    \/ \E r \in PanelRequests : updateObjectDetails(r)

(***************************************************************************)
(* The specifications: each component runs while the others rest.          *)
(***************************************************************************)
vars == <<monVars, gridVars, aggVars, objVars, memVars, panelVars>>

GridIdle ==
    /\ memoryDataRaw = <<>>
    /\ memoryDataPrev = NullRows
    /\ received = <<>>
    /\ withDeltas = <<>>
    /\ memoryGridContainer = "initial"

AggIdle ==
    /\ output = <<>>
    /\ results = <<>>
    /\ parsedDump = FALSE

Init == InitMonitoring /\ GridIdle /\ AggIdle /\ InitObj /\ InitMemory /\ InitPanel

Next == NextMonitoring /\ UNCHANGED <<gridVars, aggVars, objVars, memVars, panelVars>>

\* the monitoring session, from activation
Spec == Init /\ [][Next]_vars

InitSpecTail == InitTail /\ GridIdle /\ AggIdle /\ InitObj /\ InitMemory /\ InitPanel

\* one session tailing its counter file
SpecTail ==
    /\ InitSpecTail
    /\ [][NextTail /\ UNCHANGED <<gridVars, aggVars, objVars, memVars, panelVars>>]_vars

InitSpecGrid == InitMonitoring /\ InitGrid /\ AggIdle /\ InitObj /\ InitMemory /\ InitPanel

\* the memory grid of the webview
SpecGrid ==
    /\ InitSpecGrid
    /\ [][NextGrid /\ UNCHANGED <<monVars, aggVars, objVars, memVars, panelVars>>]_vars

InitSpecAgg == InitMonitoring /\ GridIdle /\ InitAgg /\ InitObj /\ InitMemory /\ InitPanel

\* the aggregator on one heap report
SpecAgg ==
    /\ InitSpecAgg
    /\ [][NextAgg /\ UNCHANGED <<monVars, gridVars, objVars, memVars, panelVars>>]_vars

InitSpecObj == InitMonitoring /\ GridIdle /\ AggIdle /\ InitObj /\ InitMemory /\ InitPanel

\* one getObjectDetails request
SpecObj ==
    /\ InitSpecObj
    /\ [][NextObj /\ UNCHANGED <<monVars, gridVars, aggVars, memVars, panelVars>>]_vars

InitSpecHeap == InitMonitoring /\ GridIdle /\ InitHeap /\ InitObj /\ InitMemory /\ InitPanel

\* the address extractor on one dumpheap output
SpecHeap ==
    /\ InitSpecHeap
    /\ [][NextHeap /\ UNCHANGED <<monVars, gridVars, objVars, memVars, panelVars>>]_vars

InitSpecCpu == InitMonitoring /\ GridIdle /\ InitCpu /\ InitObj /\ InitMemory /\ InitPanel

\* the hot-path extractor on one topN report
SpecCpu ==
    /\ InitSpecCpu
    /\ [][NextCpu /\ UNCHANGED <<monVars, gridVars, objVars, memVars, panelVars>>]_vars

InitSpecMemory == InitMonitoring /\ GridIdle /\ AggIdle /\ InitObj /\ InitMemory /\ InitPanel

\* one memory snapshot and the getTypeRoots calls
SpecMemory ==
    /\ InitSpecMemory
    /\ [][NextMemory /\ UNCHANGED <<monVars, gridVars, aggVars, objVars, panelVars>>]_vars

InitSpecField == InitMonitoring /\ GridIdle /\ AggIdle /\ InitField /\ InitMemory /\ InitPanel

\* the classification and the decoding of one field
SpecField ==
    /\ InitSpecField
    /\ [][NextField /\ UNCHANGED <<monVars, gridVars, aggVars, memVars, panelVars>>]_vars

InitSpecPanel == InitMonitoring /\ GridIdle /\ AggIdle /\ InitObj /\ InitMemory /\ InitPanel

\* the objects panel; every getObjectDetails message is answered, since the
\* extension posts 'objectDetails' once both tool invocations have ended
SpecPanel ==
    /\ InitSpecPanel
    /\ [][NextPanel /\ UNCHANGED <<monVars, gridVars, aggVars, objVars, memVars>>]_vars
    /\ \A r \in PanelRequests : WF_panelVars(updateObjectDetails(r))


(***************************************************************************)
(* What the collector has written and what the batches should be, stated   *)
(* without the parser and the Map of the extension.                        *)
(***************************************************************************)

\* the complete events of a counter file, in the order written
CompleteEvents(content) ==
    LET evs == SelectSeq(content, LAMBDA t : t.tok = "event")
    IN [i \in 1..Len(evs) |-> evs[i].ev]

\* the content of the file the polling callback read
TickContent == file[lastTick.file].content

\* the polling callback sliced new events out of the parsed array
TickSliced == lastTick.read /\ lastTick.parsed /\ lastTick.len > lastTick.first

\* the timestamp of an event at second resolution
SecondOf(e) ==
    IF Len(e.timestamp) = 0 THEN UnknownKey
    ELSE [i \in 1..Min(TimestampKeyLen, Len(e.timestamp)) |-> e.timestamp[i]]

\* the events of one second, in order
BatchOf(evs, k) == SelectSeq(evs, LAMBDA e : SecondOf(e) = k)

\* the seconds of a run of events, in order of first occurrence
RECURSIVE FirstSeconds(_)
FirstSeconds(evs) ==
    IF evs = <<>> THEN <<>>
    ELSE LET before == FirstSeconds(SubSeq(evs, 1, Len(evs) - 1))
             k == SecondOf(Last(evs))
         IN IF k \in Range(before) THEN before ELSE Append(before, k)

\* the value of the last event called name, 0 when there is none
LastValue(evs, name) ==
    LET at == { i \in 1..Len(evs) : evs[i].name = name }
    IN IF at = {} THEN 0
       ELSE evs[CHOOSE i \in at : \A j \in at : j <= i].value

\* q is p with some elements left out
IsSubsequence(q, p) ==
    \E pick \in SUBSET (1..Len(p)) :
        /\ Cardinality(pick) = Len(q)
        /\ \A i \in 1..Len(q) :
             q[i] = p[CHOOSE j \in pick :
                        Cardinality({l \in pick : l <= j}) = i]

\* C1: a polling tick slices exactly the events after the first lastEventCount
\* ones of the file and moves lastEventCount to the length of the array; a
\* tick whose array is not longer posts nothing and leaves lastEventCount; no
\* event of a file is sliced twice.
C1_EachEventOnce ==
    /\ sliced = Cardinality(processed)
    /\ lastTick.ran /\ TickSliced =>
         /\ lastTick.newEvents =
              SubSeq(CompleteEvents(TickContent), lastTick.first + 1, lastTick.len)
         /\ lastTick.len = Len(CompleteEvents(TickContent))
         /\ lastEventCount = lastTick.len
    /\ lastTick.ran /\ ~TickSliced =>
         /\ lastTick.newEvents = <<>>
         /\ lastTick.msgs = <<>>
         /\ lastEventCount = lastTick.first

\* a second tick found two events appended, of two seconds, and posted two samples
C1_Witness ==
    /\ lastTick.ran /\ TickSliced
    /\ lastTick.first >= 1
    /\ Len(lastTick.newEvents) >= 1
    /\ Len(lastTick.msgs) >= 1

\* a tick read a longer file whose array was not longer, and posted nothing
C1_WitnessNoNew ==
    /\ lastTick.ran /\ lastTick.read /\ lastTick.parsed
    /\ lastTick.first >= 1
    /\ lastTick.len = lastTick.first

\* a document is well formed when JSON accepts it
WellFormed(content) == JsonParse(content).ok

\* the only defect of the content is that closing characters of the Events
\* array and of the document are missing at its end, after a trailing comma
\* or not
OnlyClosureMissing(content) ==
    /\ ~WellFormed(content)
    /\ \/ WellFormed(content \o <<RBrace>>)
       \/ WellFormed(content \o <<RBracket, RBrace>>)
       \/ /\ TrimEnd(content) # <<>>
          /\ Last(TrimEnd(content)) = Comma
          /\ WellFormed(SubSeq(TrimEnd(content), 1, Len(TrimEnd(content)) - 1)
                        \o <<RBracket, RBrace>>)

\* C2: content whose only defect is the missing closure parses after the
\* recovery transform, to exactly the complete events written so far.
C2_RecoveryParses ==
    lastTick.ran /\ lastTick.read /\ OnlyClosureMissing(TickContent) =>
        /\ lastTick.parsed
        /\ lastTick.len = Len(CompleteEvents(TickContent))

\* C3: when a session ends (the handle goes from a process to null), the
\* timer is cancelled, the output file is gone from disk and from outputFile,
\* and both counters are 0.
C3_SessionEndReleases ==
    [][monitoringProcess # 0 /\ monitoringProcess' = 0 =>
         /\ readInterval' = 0
         /\ readInterval \notin timers'
         /\ outputFile' = 0
         /\ outputFile # 0 => file'[outputFile].state \in {"absent", "deleted"}
         /\ lastFileSize' = 0
         /\ lastEventCount' = 0]_vars

Positive(m) == m.cpu > 0 \/ m.memory > 0 \/ m.gcHeap > 0

\* the three metrics of the events of second k
MetricsOfSecond(evs, k) ==
    [cpu |-> LastValue(BatchOf(evs, k), CpuName),
     memory |-> LastValue(BatchOf(evs, k), MemoryName),
     gcHeap |-> LastValue(BatchOf(evs, k), GcHeapName)]

\* C4: every posted sample has a strictly positive metric, and every second
\* of the new events with a strictly positive metric is posted exactly once.
C4_AllZeroSuppressed ==
    lastTick.ran =>
        /\ \A i \in 1..Len(lastTick.msgs) : Positive(lastTick.msgs[i].data)
        /\ \A k \in Range(FirstSeconds(lastTick.newEvents)) :
             Positive(MetricsOfSecond(lastTick.newEvents, k)) =>
                Cardinality({ i \in 1..Len(lastTick.msgs) :
                                lastTick.msgs[i].data.timestamp = k }) = 1

\* one tick posted a sample for one second and suppressed another second
C4_Witness ==
    /\ lastTick.ran
    /\ Len(lastTick.msgs) >= 1
    /\ \E k \in Range(FirstSeconds(lastTick.newEvents)) :
         /\ ~Positive(MetricsOfSecond(lastTick.newEvents, k))
         /\ \E e \in Range(BatchOf(lastTick.newEvents, k)) : e.value < 0

\* the timestamps of a sequence of samples or messages
StampsOf(q, stamp(_)) == [i \in 1..Len(q) |-> stamp(q[i])]

\* C5: the batches of a tick are the seconds of its new events, one batch a
\* second, in order of first occurrence; the samples posted are batches, in
\* that order, each with the timestamp of its second.
C5_OneBatchPerSecond ==
    lastTick.ran =>
        /\ StampsOf(lastTick.metrics, LAMBDA m : m.timestamp)
             = FirstSeconds(lastTick.newEvents)
        /\ IsSubsequence(StampsOf(lastTick.msgs, LAMBDA m : m.data.timestamp),
                         FirstSeconds(lastTick.newEvents))

\* three events, the first and the third of one second with different
\* fractions, gave two batches; an event without timestamp gave 'unknown'
C5_Witness ==
    /\ lastTick.ran
    /\ Len(lastTick.newEvents) = 3
    /\ Len(lastTick.metrics) = 2
    /\ lastTick.newEvents[1].timestamp # lastTick.newEvents[3].timestamp
    /\ SecondOf(lastTick.newEvents[1]) = SecondOf(lastTick.newEvents[3])
    /\ SecondOf(lastTick.newEvents[2]) = UnknownKey
    /\ Len(lastTick.msgs) = 2

\* C6: in every batch each of the three metrics is the value of the last
\* event of the batch with that name, 0 without one; other names change
\* nothing.
C6_LastValueWins ==
    lastTick.ran =>
        \A i \in 1..Len(lastTick.metrics) :
            LET m == lastTick.metrics[i]
                want == MetricsOfSecond(lastTick.newEvents, m.timestamp)
            IN m.cpu = want.cpu /\ m.memory = want.memory /\ m.gcHeap = want.gcHeap

\* a batch with two CPU events of different values, an event of another name
\* and no working-set event
C6_Witness ==
    /\ lastTick.ran
    /\ \E i \in 1..Len(lastTick.metrics) :
         LET b == BatchOf(lastTick.newEvents, lastTick.metrics[i].timestamp)
         IN /\ Len(b) = 3
            /\ b[1].name = CpuName /\ b[3].name = CpuName
            /\ b[1].value # b[3].value
            /\ b[2].name = OtherName
            /\ lastTick.metrics[i].cpu = b[3].value
            /\ lastTick.metrics[i].memory = 0

\* content cut before any closing character parses after the transform
C2_AllClosureMissing ==
    lastTick.ran /\ lastTick.read /\ OnlyClosureMissing(TickContent)
      /\ RBracket \notin Range(TickContent) =>
        /\ lastTick.parsed
        /\ lastTick.len = Len(CompleteEvents(TickContent))

(***************************************************************************)
(* The delta engine.                                                       *)
(***************************************************************************)
HasDeltaFields(row) == {"countDelta", "bytesDelta"} \subseteq DOMAIN row

\* the snapshot shown was received twice in a row
ComparedWithItself == ~memoryDataPrev.null /\ memoryDataPrev.rows = memoryDataRaw

\* C7: the deltas of a snapshot against itself are one row for every row of
\* the snapshot, each with countDelta = 0 and bytesDelta = 0.
C7_DeltaAgainstSelfIsZero ==
    ComparedWithItself =>
        /\ Len(withDeltas) = Len(memoryDataRaw)
        /\ \A i \in 1..Len(withDeltas) :
             /\ HasDeltaFields(withDeltas[i])
             /\ withDeltas[i].countDelta = 0
             /\ withDeltas[i].bytesDelta = 0

\* a snapshot of two types was received twice
C7_Witness ==
    /\ ComparedWithItself
    /\ Len(memoryDataRaw) = 2
    /\ Len(withDeltas) = 2

\* C8, as claimed: without a previous snapshot every row has countDelta equal
\* to its count and bytesDelta equal to its bytes.
C8_DeltaAgainstNullIsCurrent ==
    memoryDataPrev.null =>
        \A i \in 1..Len(withDeltas) :
            /\ HasDeltaFields(withDeltas[i])
            /\ withDeltas[i].countDelta = withDeltas[i].count
            /\ withDeltas[i].bytesDelta = withDeltas[i].bytes

\* C8, amended: without a previous snapshot the result is the rows of the
\* snapshot themselves, with no countDelta and no bytesDelta field.
C8_DeltaAgainstNullIsRows ==
    memoryDataPrev.null =>
        /\ Len(withDeltas) = Len(memoryDataRaw)
        /\ \A i \in 1..Len(withDeltas) :
             /\ ~HasDeltaFields(withDeltas[i])
             /\ withDeltas[i] = memoryDataRaw[i]

\* the first snapshot, of two types, is shown
C8_Witness ==
    /\ memoryDataPrev.null
    /\ memoryGridContainer = "grid"
    /\ Len(withDeltas) = 2

(***************************************************************************)
(* The aggregator.                                                         *)
(***************************************************************************)
\* the lines after the first header line
AfterHeader(text) ==
    LET at == { i \in 1..Len(text) : text[i].line = "header" }
    IN IF at = {} THEN <<>>
       ELSE SubSeq(text, (CHOOSE i \in at : \A j \in at : i <= j) + 1, Len(text))

\* the data rows of a report
DataRows(text) == SelectSeq(AfterHeader(text), LAMBDA l : l.line = "row")

\* the sum of a sequence of numbers
RECURSIVE SumOf(_)
SumOf(q) == IF q = <<>> THEN 0 ELSE q[1] + SumOf(Tail(q))

\* the data rows of one canonical type
RowsOfType(text, t) == SelectSeq(DataRows(text), LAMBDA l : Canonical(l.type) = t)

Reverse(q) == [i \in 1..Len(q) |-> q[Len(q) + 1 - i]]

\* the report with the lines after its first header in the opposite order
ReversedRows(text) ==
    SubSeq(text, 1, Len(text) - Len(AfterHeader(text))) \o Reverse(AfterHeader(text))

C10_TotalsConserved ==
    parsedDump =>
        /\ { results[i].type : i \in 1..Len(results) }
             = { Canonical(l.type) : l \in Range(DataRows(output)) }
        /\ \A i \in 1..Len(results) :
             /\ results[i].count =
                  SumOf([k \in 1..Len(RowsOfType(output, results[i].type)) |->
                           ParseCommaInt(RowsOfType(output, results[i].type)[k].count)])
             /\ results[i].bytes =
                  SumOf([k \in 1..Len(RowsOfType(output, results[i].type)) |->
                           ParseCommaInt(RowsOfType(output, results[i].type)[k].bytes)])
        /\ Range(parseGcDumpOutput(ReversedRows(output))) = Range(results)

\* a row before the header, then two rows of one canonical type and
\* different sizes after it, gave one entry with their sums
C10_Witness ==
    /\ parsedDump
    /\ Len(output) = 4
    /\ output[1].line = "row"
    /\ output[2].line = "header"
    /\ Len(DataRows(output)) = 2
    /\ DataRows(output)[1].bytes # DataRows(output)[2].bytes
    /\ Len(results) = 1
    /\ results[1].bytes = 1048
    /\ results[1].count = 13

(***************************************************************************)
(* The field classification and the primitive decoder.                     *)
(***************************************************************************)
HexDigitChars ==
    { "0", "1", "2", "3", "4", "5", "6", "7", "8", "9",
      "a", "b", "c", "d", "e", "f", "A", "B", "C", "D", "E", "F" }

\* a text that is one or more hexadecimal digits
ValidHex(text) == text # <<>> /\ Range(text) \subseteq HexDigitChars

AllZero(text) == text # <<>> /\ Range(text) = {"0"}

\* the field of the state and what was built for it
TheField == rawFields[1]
TheBuilt == dumpObjResult.fields[1]
FieldBuilt == dumpObjResult.set /\ Len(dumpObjResult.fields) = 1

\* C11: a field is a reference exactly when its value-type flag is '0', its
\* value is not all zeros and its value is valid hexadecimal, whatever its
\* resolved type.
C11_ReferenceClassification ==
    FieldBuilt =>
        (TheBuilt.isReference <=>
            /\ TheField.vt = "0"
            /\ ~AllZero(TheField.value)
            /\ ValidHex(TheField.value))

\* '0x' and the characters of the value
ZeroX(text) == Decoded("hex", 0, <<>>, <<"0", "x">> \o text)

HandleTypes == { "System.IntPtr", "IntPtr", "System.UIntPtr", "UIntPtr" }

HasDecoded == decoded # Undefined

\* C12: the decoder returns and never throws; for a type name it does not
\* know or a value that is not hexadecimal it returns '0x' and the value,
\* and so it does for the pointer-sized handle types.  The display value of
\* a built field is a returned text as well.
C12_DecoderNeverThrows ==
    /\ HasDecoded =>
         /\ decoded.kind # "throws"
         /\ (TheField.type \notin primitives \/ ~ValidHex(TheField.value))
               => decoded = ZeroX(TheField.value)
         /\ TheField.type \in HandleTypes => decoded = ZeroX(TheField.value)
    /\ FieldBuilt =>
         /\ TheBuilt.displayValue.kind # "throws"
         /\ (TheBuilt.isPrimitive /\ ~ValidHex(TheField.value))
               => TheBuilt.displayValue = ZeroX(TheField.value)

\* a type the decoder does not know was decoded with a value that is not
\* hexadecimal
C12_Witness ==
    /\ HasDecoded
    /\ TheField.type = "Foo"
    /\ ~ValidHex(TheField.value)
    /\ decoded = ZeroX(TheField.value)

\* a primitive field with a value that is not hexadecimal was built
C12_WitnessField ==
    /\ FieldBuilt
    /\ TheBuilt.isPrimitive
    /\ TheField.value = <<"g">>

SignedWidth(typeName) ==
    CASE typeName \in {"System.SByte", "SByte"} -> 8
      [] typeName \in {"System.Int16", "Int16"} -> 16
      [] typeName \in {"System.Int32", "Int32"} -> 32
      [] OTHER -> 0

UnsignedWidth(typeName) ==
    CASE typeName \in {"System.Byte", "Byte"} -> 8
      [] typeName \in {"System.UInt16", "UInt16"} -> 16
      [] typeName \in {"System.UInt32", "UInt32"} -> 32
      [] OTHER -> 0

RECURSIVE TwoTo(_)
TwoTo(n) == IF n = 0 THEN 1 ELSE 2 * TwoTo(n - 1)

\* the integer in [-2^(w-1), 2^(w-1) - 1] congruent to the value modulo 2^w
TwosComplement(text, w) ==
    LET low == LowBits(HexBits(text), w)
        rest == BitsToNat(Tail(low), 0)
    IN IF low[1] = 1 THEN (rest - ((TwoTo(w - 2) - 1) * 2 + 1)) - 1 ELSE rest

\* the binary digits of a natural number, without leading zeros
RECURSIVE NatBits(_)
NatBits(n) == IF n = 0 THEN <<>> ELSE NatBits(n \div 2) \o <<n % 2>>

\* C13: SByte, Int16 and Int32 decode every hexadecimal value to the two's
\* complement integer of its low 8, 16 or 32 bits.
C13_SignedIsTwosComplement ==
    (HasDecoded /\ SignedWidth(TheField.type) > 0 /\ ValidHex(TheField.value)) =>
        /\ decoded.kind = "int"
        /\ decoded.n = TwosComplement(TheField.value, SignedWidth(TheField.type))

\* C14: Byte, UInt16 and UInt32 decode every hexadecimal value to the
\* non-negative integer of its low 8, 16 or 32 bits.
C14_UnsignedIsMasked ==
    (HasDecoded /\ UnsignedWidth(TheField.type) > 0 /\ ValidHex(TheField.value)) =>
        /\ decoded.kind = "int"
        /\ decoded.n >= 0
        /\ NatBits(decoded.n)
             = StripZeros(LowBits(HexBits(TheField.value), UnsignedWidth(TheField.type)))

\* values below 2^53: SByte, Int16 and Int32 decode them as C13 says, and
\* Byte and UInt16 as C14 says
FitsDouble(text) == Len(StripZeros(HexBits(text))) <= 53

C13_NarrowSigned ==
    (HasDecoded /\ SignedWidth(TheField.type) > 0 /\ ValidHex(TheField.value)
       /\ FitsDouble(TheField.value)) =>
        /\ decoded.kind = "int"
        /\ decoded.n = TwosComplement(TheField.value, SignedWidth(TheField.type))

C14_NarrowUnsigned ==
    (HasDecoded /\ UnsignedWidth(TheField.type) \in {8, 16}
       /\ ValidHex(TheField.value) /\ FitsDouble(TheField.value)) =>
        /\ decoded.kind = "int"
        /\ decoded.n >= 0
        /\ NatBits(decoded.n)
             = StripZeros(LowBits(HexBits(TheField.value), UnsignedWidth(TheField.type)))

(***************************************************************************)
(* The method-table resolutions of one object dump.                        *)
(***************************************************************************)
NoDuplicates(q) == \A i, j \in 1..Len(q) : q[i] = q[j] => i = j

\* the addresses of the fields that are not all zeros
NonZeroMTs == { rawFields[i].mt : i \in { k \in 1..Len(rawFields) : ~AllZero(rawFields[k].mt) } }

\* the name the query for an address printed, if it exited with 0 and
\* printed one
ResolvedName(mt) ==
    IF mt \in DOMAIN mtOutcomes /\ mtOutcomes[mt].how = "close"
       /\ mtOutcomes[mt].code = 0
    THEN mtOutcomes[mt].name ELSE ""

\* the object dump was read and its result is there
DumpObjRead == dumpObjResult.set /\ dumpObjResult # DumpObjFailed

\* C17: every distinct non-zero method-table address gets one dumpmt query
\* and no other address gets one; however the queries end and in whatever
\* order, the result has one field per raw field, whose type is the name
\* its address resolved to, or its raw type when the query failed or the
\* address is zero; the result is never the error result.
C17_ResolutionTolerant ==
    /\ NoDuplicates(mtSpawns)
    /\ rawFields # <<>> => Range(mtSpawns) = NonZeroMTs
    /\ DOMAIN mtOutcomes \subseteq Range(mtSpawns)
    /\ (dumpObjProc = "closed" /\ rawFields # <<>>) =>
         /\ DumpObjRead
         /\ Len(dumpObjResult.fields) = Len(rawFields)
         /\ \A i \in 1..Len(rawFields) :
              dumpObjResult.fields[i].type =
                 IF ResolvedName(rawFields[i].mt) # ""
                 THEN ResolvedName(rawFields[i].mt)
                 ELSE rawFields[i].type

\* two fields of two addresses: the query of the first failed and the
\* query of the second printed a name
C17_Witness ==
    /\ dumpObjProc = "closed"
    /\ Len(rawFields) = 2
    /\ rawFields[1].mt = AddrA /\ rawFields[2].mt = AddrB
    /\ ResolvedName(AddrA) = ""
    /\ ResolvedName(AddrB) = "System.Int32"
    /\ dumpObjResult.fields[1].type = "Foo"
    /\ dumpObjResult.fields[2].type = "System.Int32"

\* two fields of one address were read and one name was printed for it
C17_WitnessShared ==
    /\ dumpObjProc = "closed"
    /\ Len(rawFields) = 2
    /\ rawFields[1].mt = AddrA /\ rawFields[2].mt = AddrA
    /\ rawFields[1].type # rawFields[2].type
    /\ dumpObjResult.fields[1].type = "System.String"
    /\ dumpObjResult.fields[2].type = "System.String"

(***************************************************************************)
(* The address extractor.                                                  *)
(***************************************************************************)
DecimalChars == { "0", "1", "2", "3", "4", "5", "6", "7", "8", "9" }

\* a line of the form <hex address> <hex method table> <decimal size>
IsHeapDataLine(l) ==
    /\ Len(l.words) = 3
    /\ ValidHex(l.words[1].w)
    /\ ValidHex(l.words[2].w)
    /\ l.words[3].w # <<>> /\ Range(l.words[3].w) \subseteq DecimalChars

HeapDataLines(text) == SelectSeq(text, IsHeapDataLine)

\* C18: the extractor emits one entry per line of the form <hex address>
\* <hex method table> <decimal size>, in the order of the lines, with the
\* address and the size of the line, and nothing for any other line.
C18_AddressExtraction ==
    parsedDump =>
        /\ Len(results) = Len(HeapDataLines(output))
        /\ \A i \in 1..Len(results) :
             /\ results[i].address = HeapDataLines(output)[i].words[1].w
             /\ results[i].size = ParseInt10(HeapDataLines(output)[i].words[3].w, 0)

\* three data lines among five other lines gave three entries, in order
C18_Witness ==
    /\ parsedDump
    /\ output = HeapMixed
    /\ Len(results) = 3
    /\ results[1] = HeapObject(<<"7","f","8","d">>, 24)
    /\ results[2] = HeapObject(<<"7","F","8","E">>, 32)
    /\ results[3] = HeapObject(<<"1","0">>, 30)

(***************************************************************************)
(* The hot-path extractor.                                                 *)
(***************************************************************************)
\* a percentage within [0, 100]
InPercentRange(x) == ~x.nan /\ (x.int < 100 \/ (x.int = 100 /\ x.frac = <<>>))

IsOtherRankedRow(l) ==
    CpuLineMatches(l) /\ FuncName(l) # NonActivities /\ FuncName(l) # Threads

OtherRankedRows(text) == SelectSeq(text, IsOtherRankedRow)

\* the extractor has no entry for the two rows and one entry, in the order
\* of the lines, for each other row of the grammar
C19_FilterAndOrder ==
    parsedDump =>
        /\ \A i \in 1..Len(results) :
             results[i].function # NonActivities /\ results[i].function # Threads
        /\ Len(results) = Len(OtherRankedRows(output))
        /\ \A i \in 1..Len(results) : results[i] = CpuTraceEntry(OtherRankedRows(output)[i])

C19_FilterWitness ==
    /\ parsedDump
    /\ output = <<CpuRowNonAct, CpuRowMyThreads, CpuRowFoo>>
    /\ Len(results) = 2
    /\ results[2].inclusivePercent = [nan |-> FALSE, int |-> 45, frac |-> <<"5">>]

\* C19: the extractor has no entry whose function is "(Non-Activities)" or
\* "Threads", and has every other ranked row of the line grammar, in the
\* order of the input, with its inclusive and its exclusive percentage each
\* within [0, 100].
C19_HotPathFiltering ==
    /\ C19_FilterAndOrder
    /\ parsedDump =>
         \A i \in 1..Len(results) :
             /\ InPercentRange(results[i].inclusivePercent)
             /\ InPercentRange(results[i].exclusivePercent)

(***************************************************************************)
(* Failures of the analyzer process.                                       *)
(***************************************************************************)
\* the three queries of getObjectDetails answer a non-zero exit and a failed
\* spawn: null for a method table, the error result for the object dump,
\* the error text for the GC roots
C15_QueriesResolve ==
    [][/\ (DumpObjError \/ \E s \in DumpObjOutputs : DumpObjClose(1, s))
           => dumpObjResult' = DumpObjFailed
       /\ (GcRootError \/ GcRootClose(1)) => gcRootResult' = CommandFailed
       /\ \A mt \in DOMAIN mtProcs :
            (MtError(mt) \/ \E n \in ResolvedNames \cup {""} : MtClose(mt, 1, n))
            => /\ MapGet(mtToType', mt) = ""
               /\ resolveMethodTableType(MapGet(mtOutcomes', mt).code,
                                          MapGet(mtOutcomes', mt).name) = ""]_vars

\* a query of each kind failed, one by its exit and one by its spawn
C15_QueriesWitness ==
    /\ dumpObjProc = "errored" /\ dumpObjResult = DumpObjFailed
    /\ gcRootProc = "closed" /\ gcRootResult = CommandFailed

ScanFailed(c) == roots[c].scan \in {"errored", "exit1"}

RootsErrorPosted(c) == \E i \in 1..Len(posted) : posted[i] = Message("rootsError", c, FALSE, 0)

\* C15: no failure of a tool escapes as an exception nobody handles: when the
\* analyzer exits non-zero or fails to spawn, a method-table resolution
\* gives null, the object-dump query the error result, the GC-root query the
\* error text, and the heap scan posts rootsError.
C15_ToolFailureHandled ==
    /\ C15_QueriesResolve
    /\ [](uncaught = 0 /\ \A c \in RootsCalls : ScanFailed(c) => RootsErrorPosted(c))

\* a scan that exits non-zero does post rootsError
C15_ScanExitReported ==
    \A c \in RootsCalls : roots[c].scan = "exit1" => RootsErrorPosted(c)

(***************************************************************************)
(* The memory snapshot.                                                    *)
(***************************************************************************)
SnapshotPosted(hasDump) ==
    \E i \in 1..Len(posted) : posted[i] = Message("memorySnapshot", 0, hasDump, 0)

\* C16 as stated: the memorySnapshot message is posted as soon as the report
\* process has completed with exit code 0, whether or not the dump
\* collection has completed.
C16_PostedWhenReportCompletes ==
    gcdumpProc = "exit0" => SnapshotPosted(TRUE) \/ SnapshotPosted(FALSE)

\* C16, amended: the two processes are spawned together; the memorySnapshot
\* message is posted when both have completed and the report exited 0, not
\* before, with hasDump telling how the dump collection ended; the path of
\* the dump is recorded in that same step, never later.
C16_PostedWhenBothComplete ==
    /\ (gcdumpProc = "none") = (dumpProc = "none")
    /\ (SnapshotPosted(TRUE) \/ SnapshotPosted(FALSE)) => gcdumpDone /\ dumpDone
    /\ gcdumpProc = "exit0" /\ dumpDone => SnapshotPosted(dumpSuccess)
    /\ dumpPath # 0 /\ currentHeapDump = dumpPath => SnapshotPosted(TRUE)

\* the report has exited 0, the dump collection is still running, and no
\* memorySnapshot message has been posted
C16_Witness ==
    /\ gcdumpProc = "exit0"
    /\ dumpProc = "running"
    /\ ~SnapshotPosted(TRUE) /\ ~SnapshotPosted(FALSE)

\* the message came with the dump, after both
C16_WitnessPosted ==
    /\ gcdumpProc = "exit0"
    /\ dumpProc = "exit0"
    /\ SnapshotPosted(TRUE)
    /\ currentHeapDump = dumpPath

(***************************************************************************)
(* A polling tick whose content does not parse.                            *)
(***************************************************************************)
\* the step is a polling tick that read the file and could not parse it
SkippedTick == lastTick'.ran /\ lastTick'.read /\ ~lastTick'.parsed /\ lastTick' # lastTick

\* the content of the file parses after the recovery transform
Parses(content) == JsonParse(Recover(content)).ok

\* C20: a polling tick whose content does not parse even after the recovery
\* transform posts nothing, leaves the session collecting and lastEventCount
\* as it was; and after any tick whose content parses, every complete event
\* of the file has been sliced, so the events a skipped tick left are taken
\* by the first later tick whose content parses.
C20_SkippedTickIsSilent ==
    /\ [][SkippedTick =>
            /\ lastTick'.msgs = <<>>
            /\ lastTick'.newEvents = <<>>
            /\ UNCHANGED <<lastEventCount, processed, sliced, monitoringProcess,
                           readInterval, outputFile, timers, proc, file>>]_vars
    /\ [](lastTick.ran /\ Parses(TickContent) =>
            /\ lastEventCount = Len(CompleteEvents(TickContent))
            /\ \A i \in 1..Len(CompleteEvents(TickContent)) :
                 <<lastTick.file, i>> \in processed)

\* a tick has sliced events of a file of which an earlier read, of a shorter
\* content with as many complete events, did not parse
C20_Witness ==
    /\ lastTick.ran /\ TickSliced
    /\ Len(lastTick.newEvents) >= 1
    /\ lastTick.first >= 1
    /\ \E n \in 1..StrLen(TickContent) :
         /\ <<lastTick.file, n>> \in skipped
         /\ n < StrLen(TickContent)

\* the tick just run did not parse: events are pending and nothing is posted
C20_WitnessSkipped ==
    /\ lastTick.ran /\ lastTick.read /\ ~lastTick.parsed
    /\ lastTick.first >= 1
    /\ lastTick.first < Len(CompleteEvents(TickContent))
    /\ lastEventCount = lastTick.first
    /\ monitoringProcess # 0

(***************************************************************************)
(* One monitoring session at a time.                                       *)
(***************************************************************************)
\* the collector processes that have been spawned and have not closed
LiveProcs == { s \in Sessions : proc[s] \in {"running", "term", "kill"} }

\* the state of the session: the module variables, the timers and the files
SessionState ==
    <<monitoringProcess, readInterval, outputFile, lastFileSize, lastEventCount,
      timers, file, proc>>

\* C21: under any interleaving of startMonitoring invocations there is at
\* most one collector process and at most one polling timer at any time, and
\* a start issued while a session is active changes no session state.
C21_SingleSession ==
    /\ [](Cardinality(LiveProcs) <= 1 /\ Cardinality(timers) <= 1)
    /\ [][StartCall /\ monitoringProcess # 0 => UNCHANGED SessionState]_vars

\* C22: the follow-up of a stop and the close or error event of a collector
\* touch only the session they belong to: a process that was never sent
\* SIGTERM is not killed, and while another session is current its handle,
\* timer, output file and counters are left as they are.
C22_StopIsScoped ==
    [][/\ \A s \in Sessions : ~(proc[s] = "running" /\ proc'[s] = "kill")
       /\ \A s \in Sessions :
            (/\ proc[s] \in {"running", "term", "kill", "failed"}
             /\ proc'[s] = "closed"
             /\ monitoringProcess \notin {0, s})
            => UNCHANGED <<monitoringProcess, readInterval, outputFile, lastFileSize,
                           lastEventCount, timers, file>>
       /\ (/\ pendingStops' < pendingStops
            /\ monitoringProcess # 0
            /\ proc[monitoringProcess] = "running")
            => UNCHANGED <<monitoringProcess, readInterval, outputFile, lastFileSize,
                           lastEventCount, timers, file, proc>>]_vars

(***************************************************************************)
(* The terminal message of a memory snapshot.                              *)
(***************************************************************************)
Terminated(p) == p \in {"errored", "exit0", "exit1"}

\* the positions in posted of the terminal messages of the snapshot
SnapshotTerminals ==
    { i \in 1..Len(posted) :
        posted[i].call = 0 /\ posted[i].type \in {"memorySnapshot", "snapshotError"} }

\* the kind of the terminal messages: memorySnapshot, with hasDump telling
\* how the dump collection ended, when the report exited 0; snapshotError
\* otherwise; none before both processes have terminated, one at least after
C23_TerminalKind ==
    /\ SnapshotTerminals # {} => Terminated(gcdumpProc) /\ Terminated(dumpProc)
    /\ Terminated(gcdumpProc) /\ Terminated(dumpProc) => SnapshotTerminals # {}
    /\ \A i \in SnapshotTerminals :
         IF gcdumpProc = "exit0"
         THEN posted[i] = Message("memorySnapshot", 0, dumpProc = "exit0", 0)
         ELSE posted[i] = Message("snapshotError", 0, FALSE, 0)

\* the report exited 0 and the dump collection failed: memorySnapshot
C23_KindWitness ==
    /\ gcdumpProc = "exit0"
    /\ dumpProc = "exit1"
    /\ SnapshotPosted(FALSE)

\* C23: a snapshot request that posted snapshotStarted posts exactly one
\* terminal message once both processes have terminated, in every order:
\* memorySnapshot when the report exited 0, with hasDump telling the outcome
\* of the dump collection, snapshotError when it did not.
C23_OneTerminalMessage ==
    /\ C23_TerminalKind
    /\ Cardinality(SnapshotTerminals) <= 1

(***************************************************************************)
(* The current heap dump as a soft cache.                                  *)
(***************************************************************************)
\* the step is the start of call c
RootsStarts(c) == roots[c].pc = "idle" /\ roots'[c].pc # "idle"

\* no dump is recorded, or the file recorded is not on disk
NoDumpOnDisk == currentHeapDump = 0 \/ dumpFile[currentHeapDump] = "absent"

\* C24: getTypeRoots starts a collection if and only if no dump path is
\* recorded or the recorded file is not on disk; otherwise it starts none and
\* scans the recorded dump; a call whose collection failed has posted
\* rootsError and issued no scan.
C24_SoftCache ==
    /\ [][\A c \in RootsCalls : RootsStarts(c) =>
            /\ (roots'[c].collect = "running") = NoDumpOnDisk
            /\ ~NoDumpOnDisk =>
                 /\ roots'[c].collect = "none"
                 /\ roots'[c].scan = "running"
                 /\ roots'[c].target = currentHeapDump
                 /\ currentHeapDump' = currentHeapDump]_vars
    /\ [](\A c \in RootsCalls :
            roots[c].collect \in {"errored", "exit1"} =>
                RootsErrorPosted(c) /\ roots[c].scan = "none")

\* one call collected a dump, another reused it without collecting, and the
\* file was then removed
C24_Witness ==
    \E c, d \in RootsCalls :
        /\ roots[c].collect = "exit0"
        /\ roots[d].collect = "none"
        /\ roots[d].scan # "none"
        /\ roots[d].target = roots[c].dump
        /\ currentHeapDump = roots[c].dump
        /\ dumpFile[currentHeapDump] = "absent"

\* C25: the scan a getTypeRoots call issues targets a dump whose collection
\* has completed with exit code 0, the one the call found on disk or the
\* one it collected itself.
C25_ScanTargetsCompleteDump ==
    [][\A c \in RootsCalls :
         roots[c].scan = "none" /\ roots'[c].scan = "running" =>
            /\ dumpFile'[roots'[c].target] = "complete"
            /\ roots'[c].dump # 0 => roots'[c].target = roots'[c].dump]_vars

(***************************************************************************)
(* The objectDetails message.                                              *)
(***************************************************************************)
\* C26: getObjectDetails spawns the object-dump query and the GC-root query
\* together and posts one objectDetails message, after both have settled,
\* whatever their order and their outcomes; the message carries the address
\* and the dump path of the request and the two results.
C26_OneObjectDetails ==
    /\ (dumpObjProc = "none") = (gcRootProc = "none")
    /\ Len(objectDetails) <= 1
    /\ (Len(objectDetails) = 1) = (detailsCall = "posted")
    /\ Len(objectDetails) = 1 =>
         /\ dumpObjResult.set
         /\ gcRootResult # ""
         /\ objectDetails[1] = [address |-> request.address,
                                 dumpPath |-> request.dumpPath,
                                 dumpObj |-> dumpObjResult, gcRoot |-> gcRootResult]
         /\ request.address \in {AddrA, AddrB}
         /\ request.dumpPath \in {1, 2}

\* the message of a request whose object dump failed and whose GC-root query
\* succeeded
C26_Witness ==
    /\ Len(objectDetails) = 1
    /\ objectDetails[1].address = AddrB
    /\ objectDetails[1].dumpPath = 2
    /\ objectDetails[1].dumpObj = DumpObjFailed
    /\ objectDetails[1].gcRoot = "roots"

(***************************************************************************)
(* The deltas between two snapshots.                                       *)
(***************************************************************************)
\* the rows of a snapshot of the type of a row
SameType(rows, row) == { j \in 1..Len(rows) : rows[j].type = row.type }

\* the row with its deltas against the rows of a previous snapshot: current
\* minus previous for a type in both, its own values for a type not there
WithDelta(row, rows) ==
    LET at == SameType(rows, row)
    IN [type |-> row.type, count |-> row.count, bytes |-> row.bytes,
        countDelta |-> IF at = {} THEN row.count
                       ELSE row.count - rows[CHOOSE j \in at : TRUE].count,
        bytesDelta |-> IF at = {} THEN row.bytes
                       ELSE row.bytes - rows[CHOOSE j \in at : TRUE].bytes]

\* C27: given a previous snapshot, the deltas are one row per row of the
\* current snapshot, in its order, with type, count and bytes unchanged; a
\* type in both has delta = current minus previous, a type not in the
\* previous snapshot its own count and bytes, and a type only in the
\* previous snapshot has no row.
C27_DeltaPerCurrentRow ==
    ~memoryDataPrev.null =>
        /\ Len(withDeltas) = Len(memoryDataRaw)
        /\ \A i \in 1..Len(withDeltas) :
             withDeltas[i] = WithDelta(memoryDataRaw[i], memoryDataPrev.rows)

\* the second snapshot has a type of the first at another position and with
\* other sizes, a new type, and lacks a type of the first
C27_Witness ==
    /\ ~memoryDataPrev.null
    /\ Len(memoryDataPrev.rows) = 2
    /\ Len(memoryDataRaw) = 2
    /\ memoryDataRaw[1].type = memoryDataPrev.rows[2].type
    /\ memoryDataRaw[1].count # memoryDataPrev.rows[2].count
    /\ SameType(memoryDataPrev.rows, memoryDataRaw[2]) = {}
    /\ SameType(memoryDataRaw, memoryDataPrev.rows[1]) = {}
    /\ Len(withDeltas) = 2

\* the deltas shown are those of the last snapshot received against the one
\* received before it, when that one had rows
C28_ComparesLastTwoWithRows ==
    Len(received) = 2 /\ received[1] # <<>> =>
        /\ memoryDataRaw = received[2]
        /\ memoryDataPrev = SomeRows(received[1])
        /\ withDeltas = [i \in 1..Len(received[2]) |->
                            WithDelta(received[2][i], received[1])]

\* C28: after any sequence of snapshots received, failed snapshots and
\* re-renders, the deltas shown are those of the snapshot received last
\* against the snapshot received just before it, also when that one was
\* empty; re-renders and failed snapshots do not change the two snapshots
\* compared.
C28_ComparesLastTwo ==
    /\ [](Len(received) = 2 =>
            withDeltas = [i \in 1..Len(received[2]) |->
                             WithDelta(received[2][i], received[1])])
    /\ [][received' = received => UNCHANGED <<memoryDataRaw, memoryDataPrev, withDeltas>>]_vars

\* ---- C29 ----

\* a type text that still carries an annotation at its end
EndsAnnotated(t) ==
    t # <<>> /\ Last(t).piece \in {"bucket", "assembly"}

\* C29: canonicalization is idempotent: every type name in the aggregator's
\* output is a fixed point of Canonical, and none of them still ends with a
\* size-bucket annotation or an assembly-bracket suffix.
C29_CanonicalIdempotent ==
    parsedDump =>
        \A i \in 1..Len(results) :
            /\ Canonical(results[i].type) = results[i].type
            /\ ~EndsAnnotated(results[i].type)

\* ---- C30 ----

\* the item of the address is in the list and expanded
Expanded(a) ==
    a \in DOMAIN objectItems /\ objectItems[a].expanded

\* the panes of the item of the address still read 'Loading...'
StaysLoading(a) ==
    Expanded(a) /\ objectItems[a].content = "loading"

\* the panes of the item of the address show the details of the object
ShowsDetails(a) ==
    Expanded(a) /\ objectItems[a].content = "details"

\* C30: whenever an item of the objects list is expanded, and every tool
\* invocation ends, its Object Dump and GC Root panes eventually show the
\* details of the object (unless the item is collapsed or the list replaced
\* first), also for an address that is in the cache and a list that was
\* rendered again since.
C30_ExpandedEventuallyShown ==
    \A a \in PanelAddresses : StaysLoading(a) ~> (~Expanded(a) \/ ShowsDetails(a))

\* the same for the addresses that are not in the cache: their request is
\* posted and its answer fills the panes
C30_UncachedEventuallyShown ==
    \A a \in PanelAddresses :
        (StaysLoading(a) /\ a \notin objectDetailsCache)
            ~> (~Expanded(a) \/ ShowsDetails(a))

\* an expanded item of a cached address reads 'Loading...' and no answer
\* is on its way
C30_StuckOnCachedAddress ==
    \E a \in PanelAddresses :
        /\ StaysLoading(a)
        /\ a \in objectDetailsCache
        /\ \A r \in PanelRequests : requests[r] = 0

====
